---- MODULE Spec2Model ----
(***************************************************************************)
(* Model of doxcer (src/src/main.rs, fetch_definitions.rs,                 *)
(* fetch_secrets.rs): one run of `main`, from the CLI arguments to the     *)
(* written documentation file (Spec); parse_cli_args on every bounded      *)
(* command line (CliSpec); the two functions of the notebook cleaner on    *)
(* every bounded text (CleanerSpec).                                       *)
(*                                                                         *)
(* Text is a sequence of characters (one-character strings).  A fixed      *)
(* literal of the program that no operation looks into (a label of the     *)
(* prompt, a placeholder message) is kept as one element of the sequence.  *)
(***************************************************************************)
EXTENDS Integers, Sequences, FiniteSets, TLC

(***************************************************************************)
(* Bounds of the model.                                                    *)
(***************************************************************************)
MaxBlankValues == 1   \* configuration values that are empty or whitespace
MaxCols == 2          \* columns of a definitions result set
MaxRows == 1          \* rows of a definitions result set
MaxTokens == 3        \* command-line tokens after the program name
MaxLines == 3         \* lines of a notebook text
MaxDepth == 3         \* components of an input path

(***************************************************************************)
(* Option values.                                                          *)
(***************************************************************************)
None == [some |-> FALSE, v |-> <<>>]
Some(x) == [some |-> TRUE, v |-> x]

(***************************************************************************)
(* str primitives of the Rust standard library, as main.rs uses them.      *)
(***************************************************************************)
IsWhitespace(c) == c \in {" ", "\t", "\n", "\r"}

RECURSIVE TrimStart(_)
TrimStart(s) ==
    IF s = <<>> THEN <<>>
    ELSE IF IsWhitespace(Head(s)) THEN TrimStart(Tail(s))
    ELSE s

RECURSIVE TrimEnd(_)
TrimEnd(s) ==
    IF s = <<>> THEN <<>>
    ELSE IF IsWhitespace(s[Len(s)]) THEN TrimEnd(SubSeq(s, 1, Len(s) - 1))
    ELSE s

Trim(s) == TrimEnd(TrimStart(s))

\* `value.trim().is_empty()`
IsBlank(s) == Trim(s) = <<>>

StartsWith(s, p) == Len(s) >= Len(p) /\ SubSeq(s, 1, Len(p)) = p

EndsWith(s, p) == Len(s) >= Len(p) /\ SubSeq(s, Len(s) - Len(p) + 1, Len(s)) = p

\* index of the first occurrence of the character c in s, 0 when there is none
RECURSIVE FindChar(_, _, _)
FindChar(s, c, i) ==
    IF i > Len(s) THEN 0
    ELSE IF s[i] = c THEN i
    ELSE FindChar(s, c, i + 1)

\* str::split(c): the pieces between the occurrences of c, empty pieces kept
RECURSIVE Split(_, _)
Split(s, c) ==
    LET i == FindChar(s, c, 1)
    IN IF i = 0 THEN <<s>>
       ELSE <<SubSeq(s, 1, i - 1)>> \o Split(SubSeq(s, i + 1, Len(s)), c)

\* one line of str::lines(): a "\r" that ended the line before "\n" is dropped
StripCr(l) == IF l # <<>> /\ l[Len(l)] = "\r" THEN SubSeq(l, 1, Len(l) - 1) ELSE l

\* str::lines(): split at "\n" or "\r\n"; a final line terminator opens no line
RECURSIVE Lines(_)
Lines(s) ==
    IF s = <<>> THEN <<>>
    ELSE LET i == FindChar(s, "\n", 1)
         IN IF i = 0 THEN <<s>>
            ELSE <<StripCr(SubSeq(s, 1, i - 1))>> \o Lines(SubSeq(s, i + 1, Len(s)))

\* [&str]::join(sep)
RECURSIVE Join(_, _)
Join(parts, sep) ==
    IF parts = <<>> THEN <<>>
    ELSE IF Len(parts) = 1 THEN parts[1]
    ELSE parts[1] \o sep \o Join(Tail(parts), sep)

\* TrimEndMatches that removes one trailing p, as str::strip_suffix does
TrimEndMatches_once(s, p) ==
    IF p # <<>> /\ EndsWith(s, p) THEN SubSeq(s, 1, Len(s) - Len(p)) ELSE s

\* str::trim_end_matches(p): every trailing repetition of p is removed
RECURSIVE TrimEndMatches(_, _)
TrimEndMatches(s, p) ==
    IF p # <<>> /\ EndsWith(s, p) THEN TrimEndMatches(SubSeq(s, 1, Len(s) - Len(p)), p)
    ELSE s

(***************************************************************************)
(* Profile registry.                                                       *)
(***************************************************************************)
PromptProfile ==
    {"Default", "Fabric", "Synapse", "Databricks", "PowerBi", "Aws", "DataFactory"}

PROMPT_PROFILE_SPECS ==
    << [profile |-> "Default",
        name |-> <<"d", "e", "f", "a", "u", "l", "t">>,
        selector_flags |-> <<>>,
        template_stem |-> <<"d", "e", "f", "a", "u", "l", "t">>],
       [profile |-> "Fabric",
        name |-> <<"f", "a", "b", "r", "i", "c">>,
        selector_flags |-> << <<"-", "f", "a", "b", "r", "i", "c">> >>,
        template_stem |-> <<"f", "a", "b", "r", "i", "c">>],
       [profile |-> "Synapse",
        name |-> <<"s", "y", "n", "a", "p", "s", "e">>,
        selector_flags |-> << <<"-", "s", "y", "n", "a", "p", "s", "e">> >>,
        template_stem |-> <<"s", "y", "n", "a", "p", "s", "e">>],
       [profile |-> "Databricks",
        name |-> <<"d", "a", "t", "a", "b", "r", "i", "c", "k", "s">>,
        selector_flags |-> << <<"-", "d", "a", "t", "a", "b", "r", "i", "c", "k", "s">> >>,
        template_stem |-> <<"d", "a", "t", "a", "b", "r", "i", "c", "k", "s">>],
       [profile |-> "PowerBi",
        name |-> <<"p", "o", "w", "e", "r", "b", "i">>,
        selector_flags |-> << <<"-", "p", "o", "w", "e", "r", "b", "i">> >>,
        template_stem |-> <<"p", "o", "w", "e", "r", "b", "i">>],
       [profile |-> "Aws",
        name |-> <<"a", "w", "s">>,
        selector_flags |-> << <<"-", "a", "w", "s">> >>,
        template_stem |-> <<"a", "w", "s">>],
       [profile |-> "DataFactory",
        name |-> <<"d", "a", "t", "a", "f", "a", "c", "t", "o", "r", "y">>,
        selector_flags |-> << <<"-", "d", "a", "t", "a", "f", "a", "c", "t", "o", "r", "y">> >>,
        template_stem |-> <<"d", "a", "t", "a", "f", "a", "c", "t", "o", "r", "y">>] >>

\* the elements of a sequence
Range(q) == {q[i] : i \in 1..Len(q)}

\* Iterator::find over the registry: the first entry of the profile
prompt_profile_spec(profile) ==
    LET hits == {i \in 1..Len(PROMPT_PROFILE_SPECS) : PROMPT_PROFILE_SPECS[i].profile = profile}
    IN PROMPT_PROFILE_SPECS[CHOOSE i \in hits : \A j \in hits : i <= j]

\* parse_profile_selector that also takes the GNU form "--name" of a selector
parse_profile_selector_gnu(arg) ==
    LET flag == IF StartsWith(arg, <<"-", "-">>) THEN Tail(arg) ELSE arg
        hits == {i \in 1..Len(PROMPT_PROFILE_SPECS) :
                    flag \in Range(PROMPT_PROFILE_SPECS[i].selector_flags)}
    IN IF hits = {} THEN None
       ELSE Some(PROMPT_PROFILE_SPECS[CHOOSE i \in hits : \A j \in hits : i <= j].profile)

\* parse_profile_selector that matches "-" and the name of an entry instead of
\* its selector flags
parse_profile_selector_by_name(arg) ==
    LET hits == {i \in 1..Len(PROMPT_PROFILE_SPECS) :
                    arg = <<"-">> \o PROMPT_PROFILE_SPECS[i].name}
    IN IF hits = {} THEN None
       ELSE Some(PROMPT_PROFILE_SPECS[CHOOSE i \in hits : \A j \in hits : i <= j].profile)

\* the profile of the first registry entry that lists the token, if any
parse_profile_selector(arg) ==
    LET hits == {i \in 1..Len(PROMPT_PROFILE_SPECS) :
                    arg \in Range(PROMPT_PROFILE_SPECS[i].selector_flags)}
    IN IF hits = {} THEN None
       ELSE Some(PROMPT_PROFILE_SPECS[CHOOSE i \in hits : \A j \in hits : i <= j].profile)

profile_selector_name(profile) == prompt_profile_spec(profile).name

\* the first selector flag of every entry that has one, in declaration order
RECURSIVE FirstSelectors(_)
FirstSelectors(specs) ==
    IF specs = <<>> THEN <<>>
    ELSE (IF Head(specs).selector_flags = <<>> THEN <<>>
          ELSE <<Head(specs).selector_flags[1]>>) \o FirstSelectors(Tail(specs))

supported_selector_list == Join(FirstSelectors(PROMPT_PROFILE_SPECS), <<",", " ">>)

(***************************************************************************)
(* CLI parser.  The result is Ok(CliArgs) or Err(message).                 *)
(***************************************************************************)
CliOk(path, profile) == [ok |-> TRUE, file_path |-> path, profile |-> profile, err |-> <<>>]
CliErr(msg) == [ok |-> FALSE, file_path |-> <<>>, profile |-> "Default", err |-> msg]

ErrMissingExecutable == <<"[ERR] - Missing executable name.">>
ErrMissingPath == <<"[ERR] - Missing required notebook path argument.">>
ErrConflicting(a, b) ==
    <<"[ERR] - Conflicting selectors: both '">> \o a \o <<"' and '">> \o b
        \o <<"' were provided.">>
ErrUnknownSelector(arg) ==
    <<"[ERR] - Unknown selector '">> \o arg \o <<"'. Supported selectors: ">>
        \o supported_selector_list \o <<".">>
ErrMultiplePaths(a, b) ==
    <<"[ERR] - Multiple input paths were provided: '">> \o a \o <<"' and '">> \o b
        \o <<"'.">>

\* the loop of parse_cli_args with one slip: "last_selector_wins" overwrites
\* an earlier selector instead of reporting the conflict, "last_path_wins"
\* overwrites an earlier path instead of reporting it
RECURSIVE ParseLoopWith(_, _, _, _, _)
ParseLoopWith(slip, args, i, sel, path) ==
    IF i > Len(args)
    THEN IF path.some
         THEN CliOk(path.v, IF sel.some THEN sel.v ELSE "Default")
         ELSE CliErr(ErrMissingPath)
    ELSE LET arg == args[i]
             parsed == parse_profile_selector(arg)
         IN IF parsed.some
            THEN IF sel.some /\ sel.v # parsed.v /\ slip # "last_selector_wins"
                 THEN CliErr(ErrConflicting(profile_selector_name(sel.v),
                                            profile_selector_name(parsed.v)))
                 ELSE ParseLoopWith(slip, args, i + 1, Some(parsed.v), path)
            ELSE IF StartsWith(arg, <<"-">>)
                 THEN CliErr(ErrUnknownSelector(arg))
                 ELSE IF path.some /\ slip # "last_path_wins"
                      THEN CliErr(ErrMultiplePaths(path.v, arg))
                      ELSE ParseLoopWith(slip, args, i + 1, sel, Some(arg))

ParseLoop_last_selector_wins(args, i, sel, path) ==
    ParseLoopWith("last_selector_wins", args, i, sel, path)

ParseLoop_last_path_wins(args, i, sel, path) ==
    ParseLoopWith("last_path_wins", args, i, sel, path)

\* the loop over args[1..]: i is the next token, sel and path the two locals
RECURSIVE ParseLoop(_, _, _, _)
ParseLoop(args, i, sel, path) ==
    IF i > Len(args)
    THEN IF path.some
         THEN CliOk(path.v, IF sel.some THEN sel.v ELSE "Default")
         ELSE CliErr(ErrMissingPath)
    ELSE LET arg == args[i]
             parsed == parse_profile_selector(arg)
         IN IF parsed.some
            THEN IF sel.some
                 THEN IF sel.v # parsed.v
                      THEN CliErr(ErrConflicting(profile_selector_name(sel.v),
                                                 profile_selector_name(parsed.v)))
                      ELSE ParseLoop(args, i + 1, sel, path)
                 ELSE ParseLoop(args, i + 1, Some(parsed.v), path)
            ELSE IF StartsWith(arg, <<"-">>)
                 THEN CliErr(ErrUnknownSelector(arg))
                 ELSE IF path.some
                      THEN CliErr(ErrMultiplePaths(path.v, arg))
                      ELSE ParseLoop(args, i + 1, sel, Some(arg))

\* parse_cli_args that wants the path as the last token
parse_cli_args_path_last(args) ==
    IF args = <<>> THEN CliErr(ErrMissingExecutable)
    ELSE IF Len(args) >= 2 /\ parse_profile_selector(args[Len(args)]).some
    THEN CliErr(ErrMissingPath)
    ELSE ParseLoop(args, 2, None, None)

\* parse_cli_args that looks for unknown selectors in a pass of its own,
\* before the loop
parse_cli_args_unknown_first(args) ==
    LET unknown == {i \in 2..Len(args) :
                       ~parse_profile_selector(args[i]).some /\ StartsWith(args[i], <<"-">>)}
    IN IF args = <<>> THEN CliErr(ErrMissingExecutable)
       ELSE IF unknown # {}
       THEN CliErr(ErrUnknownSelector(args[CHOOSE i \in unknown : \A j \in unknown : i <= j]))
       ELSE ParseLoop(args, 2, None, None)

parse_cli_args(args) ==
    IF args = <<>> THEN CliErr(ErrMissingExecutable)
    ELSE ParseLoop(args, 2, None, None)

(***************************************************************************)
(* Notebook cleaner.                                                       *)
(***************************************************************************)
\* is_metadata_line without the trim_start
is_metadata_line_untrimmed(line) ==
    \/ StartsWith(line, <<"#", " ", "M", "E", "T", "A", "D", "A", "T", "A">>)
    \/ StartsWith(line, <<"#", " ", "M", "E", "T", "A">>)
    \/ StartsWith(line, <<"#", " ", "C", "E", "L", "L">>)

is_metadata_line(line) ==
    LET trimmed == TrimStart(line)
    IN \/ StartsWith(trimmed, <<"#", " ", "M", "E", "T", "A", "D", "A", "T", "A">>)
       \/ StartsWith(trimmed, <<"#", " ", "M", "E", "T", "A">>)
       \/ StartsWith(trimmed, <<"#", " ", "C", "E", "L", "L">>)

RECURSIVE KeepNonMetadata(_)
KeepNonMetadata(lines) ==
    IF lines = <<>> THEN <<>>
    ELSE (IF is_metadata_line(Head(lines)) THEN <<>> ELSE <<Head(lines)>>)
            \o KeepNonMetadata(Tail(lines))

strip_notebook_metadata(source) == Join(KeepNonMetadata(Lines(source)), <<"\n">>)

\* CollapseLoop that writes an empty line in place of the first blank line
RECURSIVE CollapseLoop_emptied(_, _)
CollapseLoop_emptied(lines, prev) ==
    IF lines = <<>> THEN <<>>
    ELSE IF IsBlank(Head(lines))
    THEN (IF prev THEN <<>> ELSE << <<>> >>) \o CollapseLoop_emptied(Tail(lines), TRUE)
    ELSE <<Head(lines)>> \o CollapseLoop_emptied(Tail(lines), FALSE)

\* the loop of collapse_blank_lines: prev is previous_was_blank
RECURSIVE CollapseLoop(_, _)
CollapseLoop(lines, prev) ==
    IF lines = <<>> THEN <<>>
    ELSE LET line == Head(lines)
             is_blank == IsBlank(line)
         IN IF is_blank
            THEN (IF prev THEN <<>> ELSE <<line>>) \o CollapseLoop(Tail(lines), TRUE)
            ELSE <<line>> \o CollapseLoop(Tail(lines), FALSE)

collapse_blank_lines(source) == Join(CollapseLoop(Lines(source), FALSE), <<"\n">>)

(***************************************************************************)
(* Output resolver.  A Path is read through its components: the pieces     *)
(* between "/" that are neither empty nor ".".                             *)
(***************************************************************************)
IsPathComponent(c) == c # <<>> /\ c # <<".">>

PathComponents(path) == SelectSeq(Split(path, "/"), IsPathComponent)

\* Path::file_name: the last component, unless the path ends in ".."
PathFileName(comps) ==
    IF comps = <<>> \/ comps[Len(comps)] = <<".", ".">> THEN None
    ELSE Some(comps[Len(comps)])

\* Path::parent: the path without its last component
PathParent(comps) ==
    IF comps = <<>> THEN None ELSE Some(SubSeq(comps, 1, Len(comps) - 1))

\* index of the last occurrence of c in s, 0 when there is none
RECURSIVE RFindChar(_, _, _)
RFindChar(s, c, i) ==
    IF i = 0 THEN 0
    ELSE IF s[i] = c THEN i
    ELSE RFindChar(s, c, i - 1)

\* FileStem that cuts the name at its first "."
FileStem_first_dot(name) ==
    LET d == FindChar(name, ".", 1)
    IN IF d <= 1 THEN name ELSE SubSeq(name, 1, d - 1)

\* Path::file_stem of a file name: the part before the last ".", the whole
\* name when it has no "." or only a leading one
FileStem(name) ==
    LET d == RFindChar(name, ".", Len(name))
    IN IF d <= 1 THEN name ELSE SubSeq(name, 1, d - 1)

NotebookContentPy ==
    <<"n", "o", "t", "e", "b", "o", "o", "k", "-", "c", "o", "n", "t", "e", "n", "t", ".", "p", "y">>
NotebookContent ==
    <<"n", "o", "t", "e", "b", "o", "o", "k", "-", "c", "o", "n", "t", "e", "n", "t">>
NotebookSuffix == <<".", "N", "o", "t", "e", "b", "o", "o", "k">>

\* the result: the run panics, or (output_file_name, output_file_name_ext)
determine_output_names(input_path) ==
    LET comps == PathComponents(input_path)
        filename == PathFileName(comps)
    IN IF ~filename.some
       THEN [panic |-> TRUE, name |-> <<>>, name_ext |-> <<>>]
       ELSE IF filename.v # NotebookContentPy
       THEN [panic |-> FALSE, name |-> FileStem(filename.v), name_ext |-> filename.v]
       ELSE LET parent == PathParent(comps)
                parent_name == IF parent.some THEN PathFileName(parent.v) ELSE None
                parent_dir_name == IF parent_name.some THEN parent_name.v ELSE NotebookContent
                output_file_name == TrimEndMatches(parent_dir_name, NotebookSuffix)
            IN [panic |-> FALSE, name |-> output_file_name,
                name_ext |-> output_file_name \o <<".", "p", "y">>]

(***************************************************************************)
(* Secret store (fetch_secrets.rs).  `found` is what the vault does for    *)
(* this call: the request fails or the secret has no value, or a value.    *)
(***************************************************************************)
get_secret_from_key_vault(vault_url, secret_name, found) ==
    IF found.fails
    THEN [panic |-> TRUE, value |-> <<>>]
    ELSE [panic |-> FALSE, value |-> Trim(found.value)]

(***************************************************************************)
(* Definitions resolver (fetch_definitions.rs).                            *)
(***************************************************************************)
FabricDefinitionConfig(cfg) ==
    [akv_base_url |-> cfg.akv_base_url,
     definition_fabric_database |-> cfg.definition_fabric_database,
     akv_secret_definition_fabric_endpoint |-> cfg.akv_secret_definition_fabric_endpoint,
     akv_secret_definition_fabric_client_id |-> cfg.akv_secret_definition_fabric_client_id,
     akv_secret_definition_fabric_password |-> cfg.akv_secret_definition_fabric_password]

\* the three vault calls are made in order; a failing call ends the run at
\* once, an empty value after all three were fetched
get_fabric_definition_db_credentials(config, found) ==
    LET names == << config.akv_secret_definition_fabric_endpoint,
                    config.akv_secret_definition_fabric_client_id,
                    config.akv_secret_definition_fabric_password >>
        got == [i \in 1..3 |-> get_secret_from_key_vault(config.akv_base_url, names[i], found[i])]
        failing == {i \in 1..3 : got[i].panic}
        made == IF failing = {} THEN 3 ELSE CHOOSE i \in failing : \A j \in failing : i <= j
    IN [panic |-> failing # {} \/ \E i \in 1..3 : IsBlank(got[i].value),
        calls |-> [i \in 1..made |-> names[i]],
        fabric_sql_endpoint |-> Trim(got[1].value),
        fabric_service_principal_client_id |-> Trim(got[2].value),
        fabric_service_principal_password |-> Trim(got[3].value)]

\* the steps of the lookup that return Err, in program order
FabricStages ==
    <<"odbc_env", "connect", "read_sql", "execute", "column_names", "buffer", "fetch">>

StageIndex(stage) == CHOOSE i \in 1..Len(FabricStages) : FabricStages[i] = stage

FetchOk(cols, rows) == [ok |-> TRUE, err |-> "", cols |-> cols, rows |-> rows]
FetchErr(stage) == [ok |-> FALSE, err |-> stage, cols |-> <<>>, rows |-> <<>>]

\* db is what the environment does: db.secrets the vault's three answers,
\* db.failure the step that fails ("none": no step), db.cursor whether the
\* statement yields a result set, db.cols and db.rows that result set
fetch_definitions_from_fabric(table_prefix, config, db) ==
    LET creds == get_fabric_definition_db_credentials(config, db.secrets)
        fails_at == IF db.failure = "none" THEN 0 ELSE StageIndex(db.failure)
        executed == fails_at = 0 \/ fails_at >= StageIndex("execute")
        like_pattern == table_prefix \o <<"%">>
    IN IF creds.panic
       THEN [panic |-> TRUE, calls |-> creds.calls, queries |-> <<>>, result |-> FetchErr("")]
       ELSE [panic |-> FALSE,
             calls |-> creds.calls,
             queries |-> IF executed THEN <<like_pattern>> ELSE <<>>,
             result |->
                IF fails_at # 0 /\ fails_at <= StageIndex("execute") THEN FetchErr(db.failure)
                ELSE IF ~db.cursor THEN FetchOk(<<>>, <<>>)
                ELSE IF fails_at # 0 THEN FetchErr(db.failure)
                ELSE FetchOk(db.cols, db.rows)]

\* str::replace of one character by a text
RECURSIVE Replace(_, _, _)
Replace(s, c, by) ==
    IF s = <<>> THEN <<>>
    ELSE (IF Head(s) = c THEN by ELSE <<Head(s)>>) \o Replace(Tail(s), c, by)

\* esc that escapes the pipes and leaves the line breaks
esc_pipes_only(s) == Replace(s, "|", <<"\\", "|">>)

esc(s) == Replace(Replace(Replace(s, "|", <<"\\", "|">>), "\n", <<" ">>), "\r", <<" ">>)

NoDefinitionRowsReturned == <<"[INF] - No definition rows returned.">>

RECURSIVE HeaderCells(_)
HeaderCells(col_names) ==
    IF col_names = <<>> THEN <<>>
    ELSE <<" ">> \o esc(Head(col_names)) \o <<" ", "|">> \o HeaderCells(Tail(col_names))

RECURSIVE SeparatorCells(_)
SeparatorCells(col_names) ==
    IF col_names = <<>> THEN <<>>
    ELSE <<" ", "-", "-", "-", " ", "|">> \o SeparatorCells(Tail(col_names))

\* RowCells that writes no cell for a value the row does not have
RECURSIVE RowCells_unpadded(_, _, _)
RowCells_unpadded(r, i, n) ==
    IF i > n \/ i > Len(r) THEN <<>>
    ELSE <<" ">> \o esc(r[i]) \o <<" ", "|">> \o RowCells_unpadded(r, i + 1, n)

\* the cells 1..n of one row, from cell i on
RECURSIVE RowCells(_, _, _)
RowCells(r, i, n) ==
    IF i > n THEN <<>>
    ELSE LET v == IF i <= Len(r) THEN r[i] ELSE <<>>
         IN <<" ">> \o esc(v) \o <<" ", "|">> \o RowCells(r, i + 1, n)

RECURSIVE TableRows(_, _)
TableRows(rows, n) ==
    IF rows = <<>> THEN <<>>
    ELSE <<"|">> \o RowCells(Head(rows), 1, n) \o <<"\n">> \o TableRows(Tail(rows), n)

format_definitions_as_markdown_table(col_names, rows) ==
    IF col_names = <<>> THEN NoDefinitionRowsReturned
    ELSE <<"|">> \o HeaderCells(col_names) \o <<"\n">>
         \o <<"|">> \o SeparatorCells(col_names) \o <<"\n">>
         \o TableRows(rows, Len(col_names))

(***************************************************************************)
(* Prompt assembler and output path (main.rs).                             *)
(***************************************************************************)
LabelDateTime == "Current date time: "
LabelFilename == "Notebook filename: "
LabelDefinitions == "Definitions: "
LabelTemplate == "Documentation template: "
LabelCode == "Code: "

DisabledPlaceholder == <<"[INF] - Definition database disabled.">>
NoRowsPlaceholder == <<"[INF] - No definitions loaded (query returned no rows).">>
QueryFailedPlaceholder == <<"[INF] - No definitions loaded (query failed).">>
NotImplementedPlaceholder == <<"[INF] - Azure SQL definitions not implemented yet.">>

\* build_prompt with the template and code sections exchanged
build_prompt_swapped(current_datetime, file_name_ext, definitions, template, notebook) ==
    <<LabelDateTime>> \o current_datetime
    \o <<"\n", "\n", LabelFilename>> \o file_name_ext
    \o <<"\n", "\n", LabelDefinitions>> \o definitions
    \o <<"\n", "\n", LabelCode>> \o notebook
    \o <<"\n", "\n", LabelTemplate>> \o template

\* the format! of the prompt
build_prompt(current_datetime, file_name_ext, definitions, template, notebook) ==
    <<LabelDateTime>> \o current_datetime
    \o <<"\n", "\n", LabelFilename>> \o file_name_ext
    \o <<"\n", "\n", LabelDefinitions>> \o definitions
    \o <<"\n", "\n", LabelTemplate>> \o template
    \o <<"\n", "\n", LabelCode>> \o notebook

\* find_docs_path() with "<output_file_name>.md" pushed
output_path(file_name) == <<"docs/newly-documented/">> \o file_name \o <<".", "m", "d">>

\* definitions_of with a catch-all second arm: an Err is taken for an empty result
definitions_of_catch_all(result) ==
    IF result.ok /\ result.cols # <<>> /\ result.rows # <<>>
    THEN format_definitions_as_markdown_table(result.cols, result.rows)
    ELSE NoRowsPlaceholder

\* definitions_of without the guard on the rows
definitions_of_unguarded_rows(result) ==
    IF result.ok /\ result.cols # <<>>
    THEN format_definitions_as_markdown_table(result.cols, result.rows)
    ELSE IF result.ok THEN NoRowsPlaceholder
    ELSE QueryFailedPlaceholder

\* definitions_of whose first arm does not ask for a column
definitions_of_unguarded_columns(result) ==
    IF result.ok /\ result.rows # <<>>
    THEN format_definitions_as_markdown_table(result.cols, result.rows)
    ELSE IF result.ok THEN NoRowsPlaceholder
    ELSE QueryFailedPlaceholder

\* the match on the result of the Fabric lookup
definitions_of(result) ==
    IF result.ok /\ result.cols # <<>> /\ result.rows # <<>>
    THEN format_definitions_as_markdown_table(result.cols, result.rows)
    ELSE IF result.ok THEN NoRowsPlaceholder
    ELSE QueryFailedPlaceholder

\* fabric_configured that looks at the enabling flag only
fabric_configured_flag_only(cfg) == cfg.definition_fabric_database_enabled

\* the condition under which main takes the Fabric branch
fabric_configured(cfg) ==
    /\ cfg.definition_fabric_database_enabled
    /\ ~IsBlank(cfg.akv_secret_definition_fabric_endpoint)
    /\ ~IsBlank(cfg.akv_secret_definition_fabric_client_id)
    /\ ~IsBlank(cfg.akv_secret_definition_fabric_password)
    /\ ~IsBlank(cfg.definition_fabric_database)

\* definitions_branch that tests the backends before the master switch
definitions_branch_backends_first(cfg) ==
    IF fabric_configured(cfg) THEN "fabric"
    ELSE IF cfg.definition_azure_database_enabled THEN "azure"
    ELSE IF ~cfg.definition_database_enabled THEN "disabled"
    ELSE "not_configured"

\* definitions_branch that tests the secondary backend before the primary
definitions_branch_azure_first(cfg) ==
    IF ~cfg.definition_database_enabled THEN "disabled"
    ELSE IF cfg.definition_azure_database_enabled THEN "azure"
    ELSE IF fabric_configured(cfg) THEN "fabric"
    ELSE "not_configured"

\* the if / else-if chain of "Determine definitions"
definitions_branch(cfg) ==
    IF ~cfg.definition_database_enabled THEN "disabled"
    ELSE IF fabric_configured(cfg) THEN "fabric"
    ELSE IF cfg.definition_azure_database_enabled THEN "azure"
    ELSE "not_configured"

ai_config_missing(cfg) ==
    \/ ~cfg.ai_enabled
    \/ IsBlank(cfg.ai_base_url)
    \/ IsBlank(cfg.ai_version)
    \/ IsBlank(cfg.ai_task)
    \/ IsBlank(cfg.ai_model)

\* akv_config_missing that tests the values without trimming them
akv_config_missing_untrimmed(cfg) ==
    \/ ~cfg.akv_enabled
    \/ cfg.akv_base_url = <<>>
    \/ cfg.akv_secret_ai = <<>>

akv_config_missing(cfg) ==
    \/ ~cfg.akv_enabled
    \/ IsBlank(cfg.akv_base_url)
    \/ IsBlank(cfg.akv_secret_ai)

(***************************************************************************)
(* The inputs of a run: arguments, environment files, files, vault,        *)
(* database and chat API answers.                                          *)
(***************************************************************************)
Doxcer == <<"d", "o", "x", "c", "e", "r">>

ArgVectors ==
    { <<Doxcer, <<"d", "/", "r", ".", "p", "y">> >>,
      <<Doxcer, <<"-", "f", "a", "b", "r", "i", "c">>,
                <<"S", ".", "N", "o", "t", "e", "b", "o", "o", "k", "/">> \o NotebookContentPy>>,
      <<Doxcer, NotebookContentPy, <<"-", "a", "w", "s">> >>,
      <<Doxcer, <<".", ".">> >>,
      <<Doxcer, <<"-", "x">>, <<"r", ".", "p", "y">> >>,
      <<Doxcer>> }

\* the tokens of a command line: selectors, tokens that look like one, paths
CliTokens ==
    { <<"-", "f", "a", "b", "r", "i", "c">>,
      <<"-", "a", "w", "s">>,
      <<"-", "-", "f", "a", "b", "r", "i", "c">>,
      <<"-", "x">>,
      <<"a", ".", "p", "y">>,
      <<"b">>,
      <<>> }

\* every command line of at most MaxTokens tokens, and the empty argv
CliArgVectors ==
    { <<>> } \cup UNION { { <<Doxcer>> \o tokens : tokens \in [1..n -> CliTokens] } :
                            n \in 0..MaxTokens }

BoolFields ==
    {"ai_enabled", "akv_enabled", "definition_database_enabled",
     "definition_fabric_database_enabled", "definition_azure_database_enabled"}

\* the value a text setting has when it is set properly
GoodValue ==
    [ai_base_url |-> <<"https://ai">>,
     ai_model |-> <<"model">>,
     ai_version |-> <<"v1">>,
     ai_task |-> <<"completions">>,
     akv_base_url |-> <<"https://vault">>,
     akv_secret_ai |-> <<"ai-key">>,
     definition_fabric_database |-> <<"definitions">>,
     akv_secret_definition_fabric_endpoint |-> <<"fabric-endpoint">>,
     akv_secret_definition_fabric_client_id |-> <<"fabric-client">>,
     akv_secret_definition_fabric_password |-> <<"fabric-password">>]

TextFields == DOMAIN GoodValue

BlankValues == {<<>>, <<" ">>}

\* every EnvParameters with at most MaxBlankValues blank text settings
Configs ==
    UNION { { b @@ [f \in TextFields |-> IF f \in B THEN blank[f] ELSE GoodValue[f]] :
                b \in [BoolFields -> BOOLEAN], blank \in [B -> BlankValues] } :
            B \in {X \in SUBSET TextFields : Cardinality(X) <= MaxBlankValues} }

NotebookTexts ==
    { <<>>,
      <<"#", " ", "M", "E", "T", "A", "\n", "x", "\n", " ", "\n", "\n", "y", "\n">> }

\* the lines of a notebook text: blank ones, code, marker lines, and lines
\* that look like marker lines
SourceLines ==
    { <<>>,
      <<" ">>,
      <<"x">>,
      <<"#", " ", "M", "E", "T", "A">>,
      <<" ", "\t", "#", " ", "C", "E", "L", "L", " ", "2">>,
      <<"#", "M", "E", "T", "A", "D", "A", "T", "A">>,
      <<"#", " ", "m", "e", "t", "a">>,
      <<"#", " ", "C", "E", "L", "L", "S">>,
      <<"x", "\r">> }

\* every text of at most MaxLines of these lines, with and without a final
\* line break
SourceTexts ==
    { Join(lines, <<"\n">>) \o last :
        lines \in UNION { [1..n -> SourceLines] : n \in 0..MaxLines },
        last \in { <<>>, <<"\n">> } }

TemplateTexts == { <<>>, <<"T">> }
ContextTexts == { <<"C">> }
DateTimes == { <<"2026-01-01 12:00:00">> }

SecretAnswers ==
    { [fails |-> TRUE, value |-> <<>>],
      [fails |-> FALSE, value |-> <<>>],
      [fails |-> FALSE, value |-> <<" ", "s", "\n">>] }

ColumnNames == { <<"c">> }
CellValues == { <<"v">>, <<"a", "|", "\n", "\r">> }

\* sequences over S of a length in lo..hi
SeqsOf(S, lo, hi) == UNION { [1..n -> S] : n \in lo..hi }

\* the result sets a cursor can deliver, and the empty ones
ResultSets ==
    { [cols |-> cols, rows |-> rows] :
        cols \in {<<>>}, rows \in {<<>>, << <<>> >>} }
    \cup UNION { { [cols |-> cols, rows |-> rows] :
                     cols \in [1..n -> ColumnNames],
                     rows \in SeqsOf([1..n -> CellValues], 0, MaxRows) } : n \in 1..MaxCols }

DbAnswers ==
    { [secrets |-> secrets, failure |-> "none", cursor |-> TRUE, cols |-> rs.cols, rows |-> rs.rows] :
        secrets \in {[i \in 1..3 |-> [fails |-> FALSE, value |-> <<" ", "s", "\n">>]]},
        rs \in ResultSets }
    \cup
    { [secrets |-> secrets, failure |-> failure, cursor |-> cursor, cols |-> <<<<"c">>>>, rows |-> <<>>] :
        secrets \in {[i \in 1..3 |-> [fails |-> FALSE, value |-> <<" ", "s", "\n">>]]},
        failure \in Range(FabricStages) \cup {"none"}, cursor \in BOOLEAN }
    \cup
    { [secrets |-> secrets, failure |-> "none", cursor |-> TRUE, cols |-> <<<<"c">>>>, rows |-> << <<<<"v">>>> >>] :
        secrets \in [1..3 -> SecretAnswers] }

ChoiceContents == { <<>>, <<" ", "\n">>, <<"#", " ", "D", "o", "c">> }

ApiAnswers ==
    { [transport_ok |-> FALSE, success |-> FALSE, decodes |-> FALSE, choices |-> <<>>],
      [transport_ok |-> TRUE, success |-> FALSE, decodes |-> FALSE, choices |-> <<>>],
      [transport_ok |-> TRUE, success |-> FALSE, decodes |-> TRUE,
       choices |-> << <<"#", " ", "D", "o", "c">> >>],
      [transport_ok |-> TRUE, success |-> TRUE, decodes |-> FALSE, choices |-> <<>>] }
    \cup { [transport_ok |-> TRUE, success |-> TRUE, decodes |-> TRUE, choices |-> ch] :
             ch \in SeqsOf(ChoiceContents, 0, 2) }

(***************************************************************************)
(* State of one run of main.                                               *)
(***************************************************************************)
VARIABLES
    pc,                    \* the statement of main that runs next
    args,                  \* env::args()
    cli_args,              \* the parsed CliArgs
    ENVCONFIG,             \* the configuration singleton, None until loaded
    output_file_name,      \* the output stem
    output_file_name_ext,  \* the notebook filename shown in the prompt
    notebook_content,      \* the text read from the notebook file
    cleaned_notebook,
    prompt_content,        \* the documentation template
    context_content,       \* the system message
    db_answer,             \* what the vault and the database did in the lookup
    fetch_result,          \* what fetch_definitions_from_fabric returned
    fabric_definitions,    \* the definitions block
    prompt,                \* the assembled prompt, None until built
    api_key,
    requests,              \* the chat requests handed to the HTTP client
    response,              \* what the send of the request returned
    outcome,               \* how the run ended, "" while it runs
    exit_code,
    fs_writes,             \* the fs::write calls on the output file
    secret_calls,          \* the secret names asked from the vault
    queries,               \* the LIKE patterns of the executed queries
    log                    \* the lines printed to stdout and stderr

vars ==
    <<pc, args, cli_args, ENVCONFIG, output_file_name, output_file_name_ext,
      notebook_content, cleaned_notebook, prompt_content, context_content, db_answer, fetch_result,
      fabric_definitions, prompt, api_key, requests, response, outcome, exit_code,
      fs_writes, secret_calls, queries, log>>

Println(text) == [stream |-> "stdout", text |-> text]
Eprintln(text) == [stream |-> "stderr", text |-> text]

\* nothing of main's later steps has happened yet
Unstarted ==
    /\ ENVCONFIG = None
    /\ output_file_name = <<>>
    /\ output_file_name_ext = <<>>
    /\ cleaned_notebook = <<>>
    /\ prompt_content = <<>>
    /\ context_content = <<>>
    /\ db_answer = None
    /\ fabric_definitions = None
    /\ prompt = None
    /\ api_key = None
    /\ requests = <<>>
    /\ response = None
    /\ outcome = ""
    /\ exit_code = 0
    /\ fs_writes = <<>>
    /\ secret_calls = <<>>
    /\ queries = <<>>
    /\ log = <<>>

\* main has not run yet
Fresh ==
    /\ cli_args = None
    /\ fetch_result = None
    /\ Unstarted

Init ==
    /\ pc = "parse"
    /\ args \in ArgVectors
    /\ notebook_content = <<>>
    /\ Fresh

\* parse_cli_args on every command line of CliArgVectors
InitCli ==
    /\ pc = "parse"
    /\ args \in CliArgVectors
    /\ notebook_content = <<>>
    /\ Fresh

\* Ends that sends the request again after a transport failure
Ends_retrying(how, code, lines) ==
    /\ pc' = IF how = "TransportError" THEN "send" ELSE "done"
    /\ outcome' = IF how = "TransportError" THEN outcome ELSE how
    /\ exit_code' = code
    /\ log' = log \o lines

\* the run ends: by a return from main, by process::exit or by a panic
Ends(how, code, lines) ==
    /\ pc' = "done"
    /\ outcome' = how
    /\ exit_code' = code
    /\ log' = log \o lines

Panics(how) == Ends(how, 101, <<>>)

Goes(next, lines) ==
    /\ pc' = next
    /\ log' = log \o lines
    /\ UNCHANGED <<outcome, exit_code>>

\* str::replace of a text by a text
RECURSIVE ReplaceText(_, _, _)
ReplaceText(s, from, to) ==
    IF Len(s) < Len(from) \/ from = <<>> THEN s
    ELSE IF StartsWith(s, from)
    THEN to \o ReplaceText(SubSeq(s, Len(from) + 1, Len(s)), from, to)
    ELSE <<Head(s)>> \o ReplaceText(Tail(s), from, to)

\* the lines print_usage writes to stderr
print_usage ==
    << Eprintln(<<"[INF] - Usage:">>),
       Eprintln(<<"[INF] -   doxcer <path/to/notebook.py>">>),
       Eprintln(<<"[INF] -   doxcer [selector] <path/to/notebook.py>">>),
       Eprintln(<<"[INF] - Selectors:">>),
       Eprintln(<<"[INF] -   ">>
                \o ReplaceText(supported_selector_list, <<",", " ">>, <<" ", "|", " ">>)),
       Eprintln(<<"[INF] - The path and selector can be provided in any order.">>) >>

\* ParseArgs without the process::exit: a parse error is reported and the run
\* goes on with an empty path and the default profile
ParseArgs_falls_through ==
    /\ pc = "parse"
    /\ LET parsed == parse_cli_args(args)
       IN IF parsed.ok
          THEN /\ cli_args' = Some(parsed)
               /\ Goes("load_env", <<>>)
          ELSE /\ cli_args' = Some(CliOk(<<>>, "Default"))
               /\ Goes("load_env", <<Eprintln(parsed.err)>> \o print_usage)
    /\ UNCHANGED <<args, notebook_content, ENVCONFIG, output_file_name, output_file_name_ext,
                   cleaned_notebook, prompt_content, context_content, db_answer, fetch_result,
                   fabric_definitions, prompt, api_key, requests, response, fs_writes,
                   secret_calls, queries>>

\* let cli_args = match parse_cli_args(&args) ...
ParseArgs ==
    /\ pc = "parse"
    /\ LET parsed == parse_cli_args(args)
       IN IF parsed.ok
          THEN /\ cli_args' = Some(parsed)
               /\ Goes("load_env", <<>>)
          ELSE /\ cli_args' = cli_args
               /\ Ends("usage", 1, <<Eprintln(parsed.err)>> \o print_usage)
    /\ UNCHANGED <<args, notebook_content, ENVCONFIG, output_file_name, output_file_name_ext,
                   cleaned_notebook, prompt_content, context_content, db_answer, fetch_result,
                   fabric_definitions, prompt, api_key, requests, response, fs_writes,
                   secret_calls, queries>>

\* the first use of ENVCONFIG runs its initializer, which panics when an env
\* file or a required variable is missing
LoadEnvPanics ==
    /\ pc = "load_env"
    /\ Panics("panic_env")
    /\ UNCHANGED <<args, notebook_content, cli_args, ENVCONFIG, output_file_name, output_file_name_ext,
                   cleaned_notebook, prompt_content, context_content, db_answer, fetch_result,
                   fabric_definitions, prompt, api_key, requests, response, fs_writes,
                   secret_calls, queries>>

LoadEnv ==
    /\ pc = "load_env"
    /\ \E cfg \in Configs : ENVCONFIG' = Some(cfg)
    /\ Goes("validate", <<>>)
    /\ UNCHANGED <<args, notebook_content, cli_args, output_file_name, output_file_name_ext,
                   cleaned_notebook, prompt_content, context_content, db_answer, fetch_result,
                   fabric_definitions, prompt, api_key, requests, response, fs_writes,
                   secret_calls, queries>>

\* Validate AI & Key Vault config
ValidateConfig ==
    /\ pc = "validate"
    /\ IF ai_config_missing(ENVCONFIG.v)
       THEN Ends("config_error_ai", 0,
                 <<Eprintln(<<"[ERR] - AI Model configuration missing in env files">>)>>)
       ELSE IF akv_config_missing(ENVCONFIG.v)
       THEN Ends("config_error_akv", 0,
                 <<Eprintln(<<"[ERR] - Azure Key Vault configuration missing in env files">>)>>)
       ELSE Goes("names", <<>>)
    /\ UNCHANGED <<args, notebook_content, cli_args, ENVCONFIG, output_file_name, output_file_name_ext,
                   cleaned_notebook, prompt_content, context_content, db_answer, fetch_result,
                   fabric_definitions, prompt, api_key, requests, response, fs_writes,
                   secret_calls, queries>>

\* Determine notebook output names
DetermineNames ==
    /\ pc = "names"
    /\ LET names == determine_output_names(cli_args.v.file_path)
       IN IF names.panic
          THEN /\ Panics("panic_no_filename")
               /\ UNCHANGED <<output_file_name, output_file_name_ext>>
          ELSE /\ output_file_name' = names.name
               /\ output_file_name_ext' = names.name_ext
               /\ Goes("read", <<>>)
    /\ UNCHANGED <<args, notebook_content, cli_args, ENVCONFIG, cleaned_notebook, prompt_content,
                   context_content, db_answer, fetch_result, fabric_definitions, prompt, api_key,
                   requests, response, fs_writes, secret_calls, queries>>

\* Fetch notebook content & clean
ReadNotebook ==
    /\ pc = "read"
    /\ \/ /\ Panics("panic_read_notebook")
          /\ UNCHANGED <<notebook_content, cleaned_notebook>>
       \/ \E text \in NotebookTexts :
            /\ notebook_content' = text
            /\ cleaned_notebook' = collapse_blank_lines(strip_notebook_metadata(text))
            /\ Goes("templates", <<>>)
    /\ UNCHANGED <<args, cli_args, ENVCONFIG, output_file_name, output_file_name_ext,
                   prompt_content, context_content, db_answer, fetch_result, fabric_definitions,
                   prompt, api_key, requests, response, fs_writes, secret_calls, queries>>

\* Load prompt & context templates
LoadTemplates ==
    /\ pc = "templates"
    /\ \/ /\ \E how \in {"panic_read_prompt", "panic_read_context"} : Panics(how)
          /\ UNCHANGED <<prompt_content, context_content>>
       \/ \E template \in TemplateTexts, context \in ContextTexts :
            /\ prompt_content' = template
            /\ context_content' = context
            /\ Goes("definitions", <<>>)
    /\ UNCHANGED <<args, notebook_content, cli_args, ENVCONFIG, output_file_name, output_file_name_ext,
                   cleaned_notebook, db_answer, fetch_result, fabric_definitions, prompt, api_key,
                   requests, response, fs_writes, secret_calls, queries>>

(***************************************************************************)
(* Determine definitions: the four branches of main.                       *)
(***************************************************************************)
DefinitionsDisabled ==
    /\ pc = "definitions"
    /\ definitions_branch(ENVCONFIG.v) = "disabled"
    /\ fabric_definitions' = Some(DisabledPlaceholder)
    /\ Goes("build", <<Println(<<"[INF] - Definition database disabled">>)>>)
    /\ UNCHANGED <<args, notebook_content, cli_args, ENVCONFIG, output_file_name, output_file_name_ext,
                   cleaned_notebook, prompt_content, context_content, db_answer, fetch_result,
                   prompt, api_key, requests, response, fs_writes, secret_calls, queries>>

DefinitionsFabric ==
    /\ pc = "definitions"
    /\ definitions_branch(ENVCONFIG.v) = "fabric"
    /\ \E db \in DbAnswers :
         LET fetched == fetch_definitions_from_fabric(
                            output_file_name, FabricDefinitionConfig(ENVCONFIG.v), db)
             found == <<Println(<<"[INF] - Definition table enabled">>),
                        Println(<<"[SUC] - Fabric Definition DB config found">>)>>
         IN /\ db_answer' = Some(db)
            /\ secret_calls' = secret_calls \o fetched.calls
            /\ queries' = queries \o fetched.queries
            /\ IF fetched.panic
               THEN /\ Ends("panic_definition_secret", 101, found)
                    /\ UNCHANGED <<fetch_result, fabric_definitions>>
               ELSE /\ fetch_result' = Some(fetched.result)
                    /\ fabric_definitions' = Some(definitions_of(fetched.result))
                    /\ Goes("build",
                            found \o
                            (IF fetched.result.ok
                             THEN <<Println(IF fetched.result.cols # <<>> /\ fetched.result.rows # <<>>
                                            THEN <<"[SUC] - Definitions found">>
                                            ELSE <<"[INF] - No definitions found for this notebook.">>)>>
                             ELSE <<Eprintln(<<"[WRN] - Failed to fetch definitions from Fabric SQL: ",
                                               fetched.result.err>>)>>))
    /\ UNCHANGED <<args, notebook_content, cli_args, ENVCONFIG, output_file_name, output_file_name_ext,
                   cleaned_notebook, prompt_content, context_content, prompt, api_key,
                   requests, response, fs_writes>>

DefinitionsAzure ==
    /\ pc = "definitions"
    /\ definitions_branch(ENVCONFIG.v) = "azure"
    /\ fabric_definitions' = Some(NotImplementedPlaceholder)
    /\ Goes("build", <<Println(<<"[INF] - Definition table enabled">>),
                       Println(<<"[SUC] - Azure Definition DB config found">>)>>)
    /\ UNCHANGED <<args, notebook_content, cli_args, ENVCONFIG, output_file_name, output_file_name_ext,
                   cleaned_notebook, prompt_content, context_content, db_answer, fetch_result,
                   prompt, api_key, requests, response, fs_writes, secret_calls, queries>>

DefinitionsNotConfigured ==
    /\ pc = "definitions"
    /\ definitions_branch(ENVCONFIG.v) = "not_configured"
    /\ Ends("no_definition_db", 0,
            <<Println(<<"[INF] - Definition table enabled">>),
              Println(<<"[ERR] - No supported definition DB configured">>)>>)
    /\ UNCHANGED <<args, notebook_content, cli_args, ENVCONFIG, output_file_name, output_file_name_ext,
                   cleaned_notebook, prompt_content, context_content, db_answer, fetch_result,
                   fabric_definitions, prompt, api_key, requests, response, fs_writes,
                   secret_calls, queries>>

(***************************************************************************)
(* Build prompt, call the API, handle the response.                        *)
(***************************************************************************)
BuildPrompt ==
    /\ pc = "build"
    /\ \E current_datetime \in DateTimes :
         LET built == build_prompt(current_datetime, output_file_name_ext,
                                   fabric_definitions.v, prompt_content, cleaned_notebook)
         IN /\ prompt' = Some(built)
            /\ Goes("api_key", <<Println(<<"Request:\n">> \o built)>>)
    /\ UNCHANGED <<args, notebook_content, cli_args, ENVCONFIG, output_file_name, output_file_name_ext,
                   cleaned_notebook, prompt_content, context_content, db_answer, fetch_result,
                   fabric_definitions, api_key, requests, response, fs_writes,
                   secret_calls, queries>>

FetchApiKey ==
    /\ pc = "api_key"
    /\ secret_calls' = Append(secret_calls, ENVCONFIG.v.akv_secret_ai)
    /\ \E found \in SecretAnswers :
         LET secret == get_secret_from_key_vault(
                           ENVCONFIG.v.akv_base_url, ENVCONFIG.v.akv_secret_ai, found)
         IN IF secret.panic
            THEN /\ Panics("panic_api_key_secret")
                 /\ UNCHANGED api_key
            ELSE /\ api_key' = Some(secret.value)
                 /\ Goes("send", <<>>)
    /\ UNCHANGED <<args, notebook_content, cli_args, ENVCONFIG, output_file_name, output_file_name_ext,
                   cleaned_notebook, prompt_content, context_content, db_answer, fetch_result,
                   fabric_definitions, prompt, requests, response, fs_writes, queries>>

api_url(cfg) ==
    cfg.ai_base_url \o <<"/models/chat/">> \o cfg.ai_task \o <<"?api-version=">> \o cfg.ai_version

ChatRequest(cfg, key, context, user_prompt) ==
    [url |-> api_url(cfg),
     api_key |-> key,
     model |-> cfg.ai_model,
     messages |-> << [role |-> "system", content |-> context],
                     [role |-> "user", content |-> user_prompt] >>]

\* client.post(..).json(&request).send(): the request leaves the program
SendRequest ==
    /\ pc = "send"
    /\ requests' = Append(requests,
                          ChatRequest(ENVCONFIG.v, api_key.v, context_content, prompt.v))
    /\ Goes("sent", <<>>)
    /\ UNCHANGED <<args, notebook_content, cli_args, ENVCONFIG, output_file_name, output_file_name_ext,
                   cleaned_notebook, prompt_content, context_content, db_answer, fetch_result,
                   fabric_definitions, prompt, api_key, response, fs_writes,
                   secret_calls, queries>>

\* response_outcome that tests the content without trimming it
response_outcome_untrimmed(res) ==
    IF ~res.transport_ok THEN "TransportError"
    ELSE IF ~res.success THEN "HttpError"
    ELSE IF ~res.decodes THEN "DecodeError"
    ELSE IF res.choices = <<>> THEN "Empty"
    ELSE IF res.choices[1] = <<>> THEN "Empty"
    ELSE "Succeeded"

\* the arm of the match that a response takes
response_outcome(res) ==
    IF ~res.transport_ok THEN "TransportError"
    ELSE IF ~res.success THEN "HttpError"
    ELSE IF ~res.decodes THEN "DecodeError"
    ELSE IF res.choices = <<>> THEN "Empty"
    ELSE IF IsBlank(res.choices[1]) THEN "Empty"
    ELSE "Succeeded"

response_lines(res) ==
    LET how == response_outcome(res)
    IN IF how = "TransportError" THEN <<Eprintln(<<"[ERR] - Request error: ">>)>>
       ELSE IF how = "HttpError" THEN <<Eprintln(<<"[ERR] - API request failed: ">>)>>
       ELSE IF how = "DecodeError" THEN <<Eprintln(<<"[ERR] - Failed to deserialize response: ">>)>>
       ELSE IF how = "Empty"
       THEN <<Println(IF res.choices = <<>> THEN <<"[INF] - No 'choices' found in response.">>
                      ELSE <<"[INF] - API response was empty.">>)>>
       ELSE <<Println(res.choices[1])>>

\* Handle response; on success save to docs/newly-documented.  The directory
\* creation and the write may each fail, which is only reported.
HandleResponse ==
    /\ pc = "sent"
    /\ \E res \in ApiAnswers :
         LET how == response_outcome(res)
         IN /\ response' = Some(res)
            /\ IF how = "Succeeded"
               THEN \E dir_ok \in BOOLEAN, write_ok \in BOOLEAN :
                      /\ write_ok => dir_ok
                      /\ fs_writes' = Append(fs_writes,
                                             [path |-> output_path(output_file_name),
                                              content |-> res.choices[1],
                                              ok |-> write_ok])
                      /\ Ends(how, 0,
                              response_lines(res)
                              \o (IF dir_ok THEN <<>>
                                  ELSE <<Eprintln(<<"[WRN] - Failed to create wiki directory">>)>>)
                              \o (IF write_ok
                                  THEN <<Println(<<"[SUC] - Saved documentation to: ">>
                                                 \o output_path(output_file_name))>>
                                  ELSE <<Eprintln(<<"[WRN] - Failed to save documentation to ">>
                                                  \o output_path(output_file_name))>>))
               ELSE /\ fs_writes' = fs_writes
                    /\ Ends(how, 0, response_lines(res))
    /\ UNCHANGED <<args, notebook_content, cli_args, ENVCONFIG, output_file_name, output_file_name_ext,
                   cleaned_notebook, prompt_content, context_content, db_answer, fetch_result,
                   fabric_definitions, prompt, api_key, requests, secret_calls, queries>>

Next ==
    \/ ParseArgs
    \/ LoadEnvPanics
    \/ LoadEnv
    \/ ValidateConfig
    \/ DetermineNames
    \/ ReadNotebook
    \/ LoadTemplates
    \/ DefinitionsDisabled
    \/ DefinitionsFabric
    \/ DefinitionsAzure
    \/ DefinitionsNotConfigured
    \/ BuildPrompt
    \/ FetchApiKey
    \/ SendRequest
    \/ HandleResponse

Spec == Init /\ [][Next]_vars

(***************************************************************************)
(* The notebook cleaner on its own: each function applied to a text of     *)
(* SourceTexts, and then once more to its own result.                      *)
(***************************************************************************)
InitCleaner ==
    /\ pc = "clean"
    /\ args = <<Doxcer>>
    /\ notebook_content \in SourceTexts
    /\ Fresh

StripNotebookMetadata ==
    /\ pc \in {"clean", "stripped"}
    /\ cleaned_notebook' =
          strip_notebook_metadata(IF pc = "clean" THEN notebook_content ELSE cleaned_notebook)
    /\ pc' = (IF pc = "clean" THEN "stripped" ELSE "stripped_twice")
    /\ UNCHANGED <<args, notebook_content, cli_args, ENVCONFIG, output_file_name,
                   output_file_name_ext, prompt_content, context_content, db_answer,
                   fetch_result, fabric_definitions, prompt, api_key, requests, response,
                   outcome, exit_code, fs_writes, secret_calls, queries, log>>

CollapseBlankLines ==
    /\ pc \in {"clean", "collapsed"}
    /\ cleaned_notebook' =
          collapse_blank_lines(IF pc = "clean" THEN notebook_content ELSE cleaned_notebook)
    /\ pc' = (IF pc = "clean" THEN "collapsed" ELSE "collapsed_twice")
    /\ UNCHANGED <<args, notebook_content, cli_args, ENVCONFIG, output_file_name,
                   output_file_name_ext, prompt_content, context_content, db_answer,
                   fetch_result, fabric_definitions, prompt, api_key, requests, response,
                   outcome, exit_code, fs_writes, secret_calls, queries, log>>

NextCleaner ==
    \/ StripNotebookMetadata
    \/ CollapseBlankLines

CleanerSpec == InitCleaner /\ [][NextCleaner]_vars

NextCli == ParseArgs

CliSpec == InitCli /\ [][NextCli]_vars

(***************************************************************************)
(* The output resolver on its own: determine_output_names on every path of *)
(* InputPaths.                                                             *)
(***************************************************************************)
DotNotebook == <<".", "N", "o", "t", "e", "b", "o", "o", "k">>

\* file and directory names: plain, generic, with the folder suffix once and
\* twice, the suffix alone, hidden, "." and ".."
PathNames ==
    { <<"r", ".", "p", "y">>,
      <<"n", "o", "t", "e", "b", "o", "o", "k", "-", "c", "o", "n", "t", "e", "n", "t", ".", "p", "y">>,
      <<"n", "o", "t", "e", "b", "o", "o", "k", "-", "c", "o", "n", "t", "e", "n", "t">>,
      <<"S">> \o DotNotebook,
      <<"A">> \o DotNotebook \o DotNotebook,
      DotNotebook,
      <<"d">>,
      <<".", "h">>,
      <<".">>,
      <<".", ".">> }

\* relative and absolute paths of 1..MaxDepth names
InputPaths ==
    { root \o Join(names, <<"/">>) :
        root \in {<<>>, <<"/">>}, names \in SeqsOf(PathNames, 1, MaxDepth) }

InitNames ==
    /\ pc = "names"
    /\ \E path \in InputPaths :
          /\ args = <<Doxcer, path>>
          /\ cli_args = Some(CliOk(path, "Default"))
    /\ notebook_content = <<>>
    /\ fetch_result = None
    /\ Unstarted

NextNames == DetermineNames

NamesSpec == InitNames /\ [][NextNames]_vars

(***************************************************************************)
(* The table renderer on its own: format_definitions_as_markdown_table on  *)
(* every column list and row list of TableInputs.                          *)
(***************************************************************************)
TableColumnNames == { <<"c">>, <<"a", "|", "\n">> }
TableCellValues == { <<"v">>, <<"|", "\\", "|", "\r", "\n">> }

\* rows are shorter than, as long as and longer than the column list
TableInputs ==
    { [cols |-> cols, rows |-> rows] :
        cols \in SeqsOf(TableColumnNames, 0, MaxCols),
        rows \in SeqsOf(SeqsOf(TableCellValues, 0, MaxCols + 1), 0, MaxRows) }

InitTable ==
    /\ pc = "format"
    /\ args = <<Doxcer>>
    /\ notebook_content = <<>>
    /\ cli_args = None
    /\ \E t \in TableInputs : fetch_result = Some(FetchOk(t.cols, t.rows))
    /\ Unstarted

FormatDefinitions ==
    /\ pc = "format"
    /\ fabric_definitions' =
          Some(format_definitions_as_markdown_table(fetch_result.v.cols, fetch_result.v.rows))
    /\ pc' = "formatted"
    /\ UNCHANGED <<args, notebook_content, cli_args, ENVCONFIG, output_file_name,
                   output_file_name_ext, cleaned_notebook, prompt_content, context_content,
                   db_answer, fetch_result, prompt, api_key, requests, response,
                   outcome, exit_code, fs_writes, secret_calls, queries, log>>

NextTable == FormatDefinitions

TableSpec == InitTable /\ [][NextTable]_vars

TypeOK ==
    /\ pc \in {"parse", "load_env", "validate", "names", "read", "templates",
               "definitions", "build", "api_key", "send", "sent", "done"}
    /\ exit_code \in {0, 1, 101}
    /\ Len(requests) <= 1

(***************************************************************************)
(* Reading the assembled prompt back: the text of a labeled section.       *)
(***************************************************************************)
\* index of the first element e of p at or after position i, 0 when none
RECURSIVE IndexOf(_, _, _)
IndexOf(p, e, i) ==
    IF i > Len(p) THEN 0
    ELSE IF p[i] = e THEN i
    ELSE IndexOf(p, e, i + 1)

\* the text between the label `from` and the blank line before the label `to`
SectionBetween(p, from, to) ==
    LET i == IndexOf(p, from, 1)
        j == IndexOf(p, to, i + 1)
    IN SubSeq(p, i + 1, j - 3)

DefinitionsSection(p) == SectionBetween(p, LabelDefinitions, LabelTemplate)

IsRenderedTable(text) == text # <<>> /\ text[1] = "|" /\ text[Len(text)] = "\n"

\* the run got past "Determine definitions" 
PastDefinitions ==
    \/ pc \in {"build", "api_key", "send", "sent"}
    \/ /\ pc = "done"
       /\ outcome \notin {"usage", "panic_env", "config_error_ai", "config_error_akv",
                          "panic_no_filename", "panic_read_notebook", "panic_read_prompt",
                          "panic_read_context"}

\* the vault delivered the three credentials of the lookup
CredentialsDelivered(db) ==
    \A i \in 1..3 : ~db.secrets[i].fails /\ ~IsBlank(db.secrets[i].value)

\* the run went on from the definitions block `block` to the prompt and the
\* chat request; past that point only the retrieval of the API key stops it
ContinuesWith(block) ==
    /\ fabric_definitions = Some(block)
    /\ outcome \notin {"panic_definition_secret", "no_definition_db"}
    /\ pc \in {"api_key", "send", "sent", "done"} =>
          prompt.some /\ DefinitionsSection(prompt.v) = block
    /\ pc \in {"sent", "done"} =>
          \/ Len(requests) = 1 /\ requests[1].messages[2].content = prompt.v
          \/ outcome = "panic_api_key_secret"

(***************************************************************************)
(* C1: with the primary backend selected, a failure to connect, to read    *)
(* the SQL file, to execute the query or to fetch its rows does not end    *)
(* the run: the definitions block is the 'query failed' placeholder, the   *)
(* prompt is assembled with it and the chat request is sent (the run then  *)
(* stops only if the API key cannot be retrieved).                         *)
(***************************************************************************)
C1_QueryFailureIsNotFatal ==
    ( /\ db_answer.some
      /\ CredentialsDelivered(db_answer.v)
      /\ \/ db_answer.v.failure \in {"connect", "read_sql", "execute"}
         \/ db_answer.v.failure = "fetch" /\ db_answer.v.cursor )
    => /\ PastDefinitions
       /\ fetch_result.some /\ ~fetch_result.v.ok
       /\ ContinuesWith(QueryFailedPlaceholder)

C1_Witness ==
    /\ db_answer.some
    /\ db_answer.v.failure = "connect"
    /\ pc = "done"
    /\ Len(requests) = 1
    /\ DefinitionsSection(requests[1].messages[2].content) = QueryFailedPlaceholder

(***************************************************************************)
(* C2: no failure inside the definitions lookup ends the run before the    *)
(* prompt is assembled: once the lookup has started, a run that has ended  *)
(* has assembled its prompt.                                               *)
(***************************************************************************)
C2_LookupFailureNeverAborts ==
    (db_answer.some /\ pc = "done") => prompt.some

(***************************************************************************)
(* C3: with the definitions database disabled the definitions section of   *)
(* the prompt is the 'disabled' placeholder, whatever the backend flags    *)
(* and values are, and no credential is fetched and no query is run.       *)
(***************************************************************************)
C3_DisabledGivesPlaceholder ==
    (ENVCONFIG.some /\ ~ENVCONFIG.v.definition_database_enabled)
    => /\ ~db_answer.some
       /\ queries = <<>>
       /\ secret_calls \in {<<>>, <<ENVCONFIG.v.akv_secret_ai>>}
       /\ outcome \notin {"panic_definition_secret", "no_definition_db"}
       /\ PastDefinitions => fabric_definitions = Some(DisabledPlaceholder)
       /\ prompt.some => DefinitionsSection(prompt.v) = DisabledPlaceholder

C3_Witness ==
    /\ ENVCONFIG.some
    /\ ~ENVCONFIG.v.definition_database_enabled
    /\ ENVCONFIG.v.definition_fabric_database_enabled
    /\ fabric_configured(ENVCONFIG.v)
    /\ ENVCONFIG.v.definition_azure_database_enabled
    /\ prompt.some
    /\ DefinitionsSection(prompt.v) = DisabledPlaceholder
    /\ Len(requests) = 1

(***************************************************************************)
(* C4: with the definitions database enabled, both backends enabled and    *)
(* the four primary values non-blank, the primary backend is used: the     *)
(* definitions block is a rendered table or the 'no rows' or 'query        *)
(* failed' placeholder, never the 'not implemented' placeholder.           *)
(***************************************************************************)
BothBackendsUsable ==
    /\ ENVCONFIG.some
    /\ ENVCONFIG.v.definition_database_enabled
    /\ ENVCONFIG.v.definition_fabric_database_enabled
    /\ ENVCONFIG.v.definition_azure_database_enabled
    /\ \A f \in {"akv_secret_definition_fabric_endpoint",
                 "akv_secret_definition_fabric_client_id",
                 "akv_secret_definition_fabric_password",
                 "definition_fabric_database"} : Trim(ENVCONFIG.v[f]) # <<>>

C4_PrimaryTakesPrecedence ==
    (BothBackendsUsable /\ PastDefinitions)
    => /\ db_answer.some
       /\ fabric_definitions.some =>
            /\ fabric_definitions.v # NotImplementedPlaceholder
            /\ \/ IsRenderedTable(fabric_definitions.v)
               \/ fabric_definitions.v \in {NoRowsPlaceholder, QueryFailedPlaceholder}
       /\ prompt.some => DefinitionsSection(prompt.v) = fabric_definitions.v

C4_Witness ==
    /\ BothBackendsUsable
    /\ prompt.some
    /\ IsRenderedTable(DefinitionsSection(prompt.v))
    /\ queries # <<>>

(***************************************************************************)
(* C5: when the primary backend is used and the query succeeds with no     *)
(* row (or no column, or no cursor) the definitions section is the 'no     *)
(* rows' placeholder; a table is rendered only for a result with at least  *)
(* one column and at least one row.                                        *)
(***************************************************************************)
C5_EmptyResultGivesNoRows ==
    (db_answer.some /\ CredentialsDelivered(db_answer.v) /\ db_answer.v.failure = "none")
    => LET db == db_answer.v
           empty == ~db.cursor \/ db.cols = <<>> \/ db.rows = <<>>
       IN /\ fabric_definitions.some
          /\ empty => ContinuesWith(NoRowsPlaceholder)
          /\ IsRenderedTable(fabric_definitions.v) => ~empty
          /\ ~empty =>
               /\ IsRenderedTable(fabric_definitions.v)
               /\ Len(Lines(fabric_definitions.v)) = 2 + Len(db.rows)

C5_Witness ==
    /\ db_answer.some
    /\ db_answer.v.failure = "none"
    /\ db_answer.v.cursor
    /\ db_answer.v.cols # <<>>
    /\ db_answer.v.rows = <<>>
    /\ prompt.some
    /\ DefinitionsSection(prompt.v) = NoRowsPlaceholder

(***************************************************************************)
(* C6: with the definitions database enabled, the primary backend not      *)
(* usable (disabled, or one of its four values blank) and the secondary    *)
(* backend enabled, the definitions block is the 'not implemented'         *)
(* placeholder, the run goes on to the prompt and the chat request, and    *)
(* no credential is fetched for the lookup and no query is run.            *)
(***************************************************************************)
PrimaryUnusable ==
    \/ ~ENVCONFIG.v.definition_fabric_database_enabled
    \/ \E f \in {"akv_secret_definition_fabric_endpoint",
                 "akv_secret_definition_fabric_client_id",
                 "akv_secret_definition_fabric_password",
                 "definition_fabric_database"} : Trim(ENVCONFIG.v[f]) = <<>>

C6_SecondaryIsAStub ==
    ( /\ ENVCONFIG.some
      /\ ENVCONFIG.v.definition_database_enabled
      /\ PrimaryUnusable
      /\ ENVCONFIG.v.definition_azure_database_enabled
      /\ PastDefinitions )
    => /\ ContinuesWith(NotImplementedPlaceholder)
       /\ ~db_answer.some
       /\ queries = <<>>
       /\ secret_calls \in {<<>>, <<ENVCONFIG.v.akv_secret_ai>>}

C6_Witness ==
    /\ ENVCONFIG.some
    /\ ENVCONFIG.v.definition_database_enabled
    /\ ENVCONFIG.v.definition_fabric_database_enabled
    /\ ENVCONFIG.v.akv_secret_definition_fabric_password = <<" ">>
    /\ ENVCONFIG.v.definition_azure_database_enabled
    /\ Len(requests) = 1
    /\ DefinitionsSection(requests[1].messages[2].content) = NotImplementedPlaceholder

(***************************************************************************)
(* C7: with the definitions database enabled and neither backend usable    *)
(* the run ends with a configuration error: no prompt, no secret fetched,  *)
(* no chat request, no output file; and a run that ends in "Determine      *)
(* definitions" ends in no other way.                                      *)
(***************************************************************************)
C7_OnlyNoBackendEndsTheRun ==
    /\ ( /\ ENVCONFIG.some
         /\ ENVCONFIG.v.definition_database_enabled
         /\ PrimaryUnusable
         /\ ~ENVCONFIG.v.definition_azure_database_enabled
         /\ PastDefinitions )
       => /\ pc = "done"
          /\ outcome = "no_definition_db"
          /\ ~prompt.some
          /\ secret_calls = <<>>
          /\ requests = <<>>
          /\ fs_writes = <<>>
    /\ (pc = "done" /\ PastDefinitions /\ ~prompt.some) => outcome = "no_definition_db"

(***************************************************************************)
(* C8: the assembled prompt holds the five labeled sections in the order   *)
(* date-time, notebook filename, definitions, documentation template,      *)
(* code; every label is there also when its section is empty, and the      *)
(* filename section is the resolved filename with its extension.           *)
(***************************************************************************)
C8_PromptSectionsInOrder ==
    prompt.some
    => LET p == prompt.v
           i1 == IndexOf(p, LabelDateTime, 1)
           i2 == IndexOf(p, LabelFilename, i1 + 1)
           i3 == IndexOf(p, LabelDefinitions, i2 + 1)
           i4 == IndexOf(p, LabelTemplate, i3 + 1)
           i5 == IndexOf(p, LabelCode, i4 + 1)
       IN /\ i1 = 1 /\ i2 > i1 /\ i3 > i2 /\ i4 > i3 /\ i5 > i4
          /\ SubSeq(p, i1 + 1, i2 - 3) \in DateTimes
          /\ SubSeq(p, i2 + 1, i3 - 3) = output_file_name_ext
          /\ output_file_name_ext = determine_output_names(cli_args.v.file_path).name_ext
          /\ SubSeq(p, i3 + 1, i4 - 3) = fabric_definitions.v
          /\ SubSeq(p, i4 + 1, i5 - 3) = prompt_content
          /\ SubSeq(p, i5 + 1, Len(p)) = cleaned_notebook
          /\ \A i \in {i2, i3, i4, i5} : p[i - 1] = "\n" /\ p[i - 2] = "\n"

C8_Witness ==
    /\ prompt.some
    /\ prompt_content = <<>>
    /\ cleaned_notebook = <<>>
    /\ IndexOf(prompt.v, LabelCode, 1) = Len(prompt.v)
    /\ IndexOf(prompt.v, LabelTemplate, 1) = Len(prompt.v) - 3

(***************************************************************************)
(* C9: fs::write of docs/newly-documented/<stem>.md is called if and only  *)
(* if the run reaches Succeeded, that is the response has a success        *)
(* status, decodes, has a choice, and the content of the first choice is   *)
(* not empty after trimming; in the Empty, DecodeError, HttpError and      *)
(* transport-failure outcomes nothing is written.                          *)
(***************************************************************************)
ResponseCarriesContent ==
    /\ response.some
    /\ response.v.transport_ok
    /\ response.v.success
    /\ response.v.decodes
    /\ Len(response.v.choices) >= 1
    /\ Trim(response.v.choices[1]) # <<>>

C9_WrittenIffSucceeded ==
    /\ pc # "done" => fs_writes = <<>>
    /\ pc = "done" =>
         /\ fs_writes # <<>> <=> outcome = "Succeeded"
         /\ outcome = "Succeeded" <=> ResponseCarriesContent
         /\ outcome \in {"Empty", "DecodeError", "HttpError", "TransportError"}
               <=> (response.some /\ ~ResponseCarriesContent)
         /\ fs_writes # <<>> =>
               /\ Len(fs_writes) = 1
               /\ fs_writes[1].path = <<"docs/newly-documented/">> \o output_file_name
                                         \o <<".", "m", "d">>
               /\ fs_writes[1].content = response.v.choices[1]

C9_Witness ==
    /\ pc = "done"
    /\ outcome = "Succeeded"
    /\ Len(fs_writes) = 1
    /\ fs_writes[1].ok

(***************************************************************************)
(* C10: a run sends at most one chat request; from Sent the run moves to   *)
(* exactly one of Succeeded, Empty, DecodeError, HttpError or transport    *)
(* failure and has then ended; no step leads back to Built or Sent.        *)
(***************************************************************************)
SentOutcomes == {"Succeeded", "Empty", "DecodeError", "HttpError", "TransportError"}

C10_SingleRequestNoRetry ==
    [][ /\ Len(requests') <= 1
        /\ pc = "sent" => pc' = "done" /\ outcome' \in SentOutcomes /\ requests' = requests
        /\ pc = "done" => pc' = "done" /\ outcome' = outcome /\ requests' = requests
        /\ pc' \in {"build", "api_key", "send"} => requests' = <<>>
        /\ outcome' \in SentOutcomes => pc' = "done" /\ Len(requests') = 1 ]_vars

C10_Witness ==
    /\ pc = "done"
    /\ outcome = "TransportError"
    /\ Len(requests) = 1
    /\ fs_writes = <<>>

(***************************************************************************)
(* C11: when the mandatory configuration is in error (AI call disabled, or *)
(* base URL, version, task or model blank; secret store disabled, or its   *)
(* URL or the API-key secret name blank) the run ends at the validation:   *)
(* no secret is retrieved, no definitions query runs, no chat request is   *)
(* sent and no output is written.                                          *)
(***************************************************************************)
C11_ConfigErrorBeforeNetwork ==
    LET cfg == ENVCONFIG.v
        ai_error ==
            \/ ~cfg.ai_enabled
            \/ \E f \in {"ai_base_url", "ai_version", "ai_task", "ai_model"} :
                  Trim(cfg[f]) = <<>>
        akv_error ==
            \/ ~cfg.akv_enabled
            \/ \E f \in {"akv_base_url", "akv_secret_ai"} : Trim(cfg[f]) = <<>>
    IN (ENVCONFIG.some /\ (ai_error \/ akv_error))
       => /\ pc \in {"validate", "done"}
          /\ pc = "done" =>
                outcome = (IF ai_error THEN "config_error_ai" ELSE "config_error_akv")
          /\ secret_calls = <<>>
          /\ ~db_answer.some
          /\ queries = <<>>
          /\ ~prompt.some
          /\ requests = <<>>
          /\ ~response.some
          /\ fs_writes = <<>>

C11_Witness ==
    /\ pc = "done"
    /\ outcome = "config_error_akv"
    /\ ENVCONFIG.v.akv_enabled
    /\ ENVCONFIG.v.akv_secret_ai = <<" ">>
    /\ secret_calls = <<>>
    /\ requests = <<>>

(***************************************************************************)
(* C12: when parse_cli_args fails, the error and then the usage text are   *)
(* printed to stderr and the process exits with status 1; the              *)
(* configuration is never loaded, the notebook is not read, no secret,     *)
(* database or chat call is made and no file is written.                   *)
(***************************************************************************)
C12_ParseFailureExitsWithUsage ==
    (~parse_cli_args(args).ok /\ pc # "parse")
    => /\ pc = "done"
       /\ outcome = "usage"
       /\ exit_code # 0
       /\ log = <<Eprintln(parse_cli_args(args).err)>> \o print_usage
       /\ cli_args = None
       /\ ENVCONFIG = None
       /\ notebook_content = <<>>
       /\ cleaned_notebook = <<>>
       /\ secret_calls = <<>>
       /\ queries = <<>>
       /\ requests = <<>>
       /\ fs_writes = <<>>

C12_Witness ==
    /\ pc = "done"
    /\ outcome = "usage"
    /\ exit_code = 1
    /\ Len(log) = 7
    /\ log[1] = Eprintln(ErrUnknownSelector(<<"-", "x">>))

(***************************************************************************)
(* Reading a command line: the tokens after the program name, classified   *)
(* from the registry, and the first token the parser cannot accept.        *)
(***************************************************************************)
TokensOf(argv) == IF argv = <<>> THEN <<>> ELSE Tail(argv)

IsSelectorToken(t) ==
    \E k \in DOMAIN PROMPT_PROFILE_SPECS : t \in Range(PROMPT_PROFILE_SPECS[k].selector_flags)

TokenProfile(t) ==
    PROMPT_PROFILE_SPECS[CHOOSE k \in DOMAIN PROMPT_PROFILE_SPECS :
                            t \in Range(PROMPT_PROFILE_SPECS[k].selector_flags)].profile

ProfileName(profile) ==
    PROMPT_PROFILE_SPECS[CHOOSE k \in DOMAIN PROMPT_PROFILE_SPECS :
                            PROMPT_PROFILE_SPECS[k].profile = profile].name

IsUnknownToken(t) == ~IsSelectorToken(t) /\ t # <<>> /\ t[1] = "-"

IsPathToken(t) == ~IsSelectorToken(t) /\ ~IsUnknownToken(t)

SelectorAt(tokens) == {i \in DOMAIN tokens : IsSelectorToken(tokens[i])}
UnknownAt(tokens) == {i \in DOMAIN tokens : IsUnknownToken(tokens[i])}
PathAt(tokens) == {i \in DOMAIN tokens : IsPathToken(tokens[i])}

Least(S) == CHOOSE i \in S : \A j \in S : i <= j

\* the selector tokens whose profile differs from an earlier selector's
ConflictAt(tokens) ==
    {j \in SelectorAt(tokens) :
        \E i \in SelectorAt(tokens) : i < j /\ TokenProfile(tokens[i]) # TokenProfile(tokens[j])}

\* the path tokens that come after another path token
SecondPathAt(tokens) == {j \in PathAt(tokens) : \E i \in PathAt(tokens) : i < j}

\* the first token that is in error, 0 when every token is accepted
FirstOffence(tokens) ==
    LET bad == UnknownAt(tokens) \cup ConflictAt(tokens) \cup SecondPathAt(tokens)
    IN IF bad = {} THEN 0 ELSE Least(bad)

\* parse_cli_args has returned: Ok, or Err with the message as first line
Parsed == pc # "parse" /\ args # <<>>
ParsedOk == pc = "load_env" /\ cli_args.some /\ cli_args.v.ok
ParseFailedWith(msg) ==
    /\ pc = "done"
    /\ outcome = "usage"
    /\ cli_args = None
    /\ log # <<>>
    /\ log[1] = Eprintln(msg)

(***************************************************************************)
(* C13: when the tokens after the program name are exactly one path-like   *)
(* token (not starting with "-") and zero or one recognized selector, in   *)
(* either order, parse_cli_args returns Ok with that path and the          *)
(* selector's profile, Default when there is no selector.                  *)
(***************************************************************************)
C13_OnePathOptionalSelector ==
    Parsed =>
      LET tokens == TokensOf(args)
          paths == {i \in DOMAIN tokens : ~StartsWith(tokens[i], <<"-">>)}
          sels == SelectorAt(tokens)
      IN (Cardinality(paths) = 1 /\ Cardinality(sels) <= 1 /\ paths \cup sels = DOMAIN tokens)
         => /\ ParsedOk
            /\ cli_args.v.file_path = tokens[Least(paths)]
            /\ cli_args.v.profile =
                  (IF sels = {} THEN "Default" ELSE TokenProfile(tokens[Least(sels)]))

C13_Witness ==
    /\ args = <<Doxcer, <<"a", ".", "p", "y">>, <<"-", "a", "w", "s">> >>
    /\ ParsedOk
    /\ cli_args.v.file_path = <<"a", ".", "p", "y">>
    /\ cli_args.v.profile = "Aws"

(***************************************************************************)
(* C14 as stated: every command line with two different recognized         *)
(* selectors fails with the conflicting-selectors error; the same selector *)
(* repeated does not conflict and selects its profile.                     *)
(***************************************************************************)
C14_TwoSelectorsAlwaysConflict ==
    Parsed =>
      LET tokens == TokensOf(args)
          j == Least(ConflictAt(tokens))
      IN /\ ConflictAt(tokens) # {} =>
               ParseFailedWith(ErrConflicting(
                   ProfileName(TokenProfile(tokens[Least(SelectorAt(tokens))])),
                   ProfileName(TokenProfile(tokens[j]))))
         /\ (FirstOffence(tokens) = 0 /\ PathAt(tokens) # {} /\ SelectorAt(tokens) # {})
               => ParsedOk /\ cli_args.v.profile = TokenProfile(tokens[Least(SelectorAt(tokens))])

(***************************************************************************)
(* C14 amended: every command line with two different recognized selectors *)
(* fails; the error is the conflicting-selectors error, naming the profile *)
(* selected so far and the profile of the differing selector, unless an    *)
(* unknown "-" token or a second path token comes before the differing     *)
(* selector (the parse then fails with that token's error).  The same      *)
(* selector repeated any number of times does not conflict and selects its *)
(* profile.                                                                *)
(***************************************************************************)
C14_ConflictUnlessEarlierError ==
    Parsed =>
      LET tokens == TokensOf(args)
          j == FirstOffence(tokens)
      IN /\ ConflictAt(tokens) # {} => pc = "done" /\ outcome = "usage" /\ exit_code = 1
         /\ (j # 0 /\ j \in ConflictAt(tokens)) =>
               ParseFailedWith(ErrConflicting(
                   ProfileName(TokenProfile(tokens[Least(SelectorAt(tokens))])),
                   ProfileName(TokenProfile(tokens[j]))))
         /\ (j = 0 /\ PathAt(tokens) # {} /\ SelectorAt(tokens) # {})
               => ParsedOk /\ cli_args.v.profile = TokenProfile(tokens[Least(SelectorAt(tokens))])

C14_Witness ==
    /\ args = <<Doxcer, <<"-", "f", "a", "b", "r", "i", "c">>, <<"a", ".", "p", "y">>,
                <<"-", "a", "w", "s">> >>
    /\ ParseFailedWith(ErrConflicting(<<"f", "a", "b", "r", "i", "c">>, <<"a", "w", "s">>))

(***************************************************************************)
(* The supported-selector list as the unit test spells it.                 *)
(***************************************************************************)
CanonicalSelectorList ==
    <<"-", "f", "a", "b", "r", "i", "c", ",", " ", "-", "s", "y", "n", "a",
       "p", "s", "e", ",", " ", "-", "d", "a", "t", "a", "b", "r", "i", "c",
       "k", "s", ",", " ", "-", "p", "o", "w", "e", "r", "b", "i", ",", " ",
       "-", "a", "w", "s", ",", " ", "-", "d", "a", "t", "a", "f", "a", "c",
       "t", "o", "r", "y">>

(***************************************************************************)
(* C15 as stated: every token after the program name that begins with "-"  *)
(* and is no registry selector (such as "--fabric") makes the parse fail   *)
(* with the unknown-selector error naming that token and the supported     *)
(* list: the first selector of each profile in declaration order, joined   *)
(* by ", ", nothing for Default.                                           *)
(***************************************************************************)
C15_EveryUnknownTokenIsNamed ==
    /\ supported_selector_list = CanonicalSelectorList
    /\ Parsed =>
         \A i \in UnknownAt(TokensOf(args)) :
             ParseFailedWith(<<"[ERR] - Unknown selector '">> \o TokensOf(args)[i]
                             \o <<"'. Supported selectors: ">> \o CanonicalSelectorList \o <<".">>)

(***************************************************************************)
(* C15 amended: a token after the program name that begins with "-" and is *)
(* no registry selector (such as "--fabric") always makes the parse fail;  *)
(* the error is the unknown-selector error naming that token and the       *)
(* supported list when it is the first token in error, that is unless an   *)
(* earlier unknown token, a conflicting selector or a second path token    *)
(* comes before it.  The list is the first selector of each profile in     *)
(* declaration order joined by ", ", nothing for Default.                  *)
(***************************************************************************)
C15_FirstUnknownTokenIsNamed ==
    /\ supported_selector_list = CanonicalSelectorList
    /\ Parsed =>
         LET tokens == TokensOf(args)
             j == FirstOffence(tokens)
         IN /\ UnknownAt(tokens) # {} => pc = "done" /\ outcome = "usage" /\ exit_code = 1
            /\ (j # 0 /\ j \in UnknownAt(tokens)) =>
                  ParseFailedWith(<<"[ERR] - Unknown selector '">> \o tokens[j]
                                  \o <<"'. Supported selectors: ">> \o CanonicalSelectorList
                                  \o <<".">>)

C15_Witness ==
    /\ args = <<Doxcer, <<"-", "-", "f", "a", "b", "r", "i", "c">>, <<"a", ".", "p", "y">> >>
    /\ ParseFailedWith(ErrUnknownSelector(<<"-", "-", "f", "a", "b", "r", "i", "c">>))

(***************************************************************************)
(* C16 as stated: exactly one path token is required.  When every token    *)
(* after the program name is an accepted selector and there is no path     *)
(* token the parse fails with the missing-path error; a second path token  *)
(* fails with the multiple-paths error naming both paths; an Ok result     *)
(* carries the one path token of the command line.                         *)
(***************************************************************************)
C16_SecondPathAlwaysReported ==
    Parsed =>
      LET tokens == TokensOf(args)
      IN /\ (FirstOffence(tokens) = 0 /\ PathAt(tokens) = {}) => ParseFailedWith(ErrMissingPath)
         /\ SecondPathAt(tokens) # {} =>
               ParseFailedWith(<<"[ERR] - Multiple input paths were provided: '">>
                               \o tokens[Least(PathAt(tokens))] \o <<"' and '">>
                               \o tokens[Least(SecondPathAt(tokens))] \o <<"'.">>)
         /\ ParsedOk =>
               /\ Cardinality(PathAt(tokens)) = 1
               /\ cli_args.v.file_path = tokens[Least(PathAt(tokens))]

(***************************************************************************)
(* C16 amended: exactly one path token is required.  When every token      *)
(* after the program name is an accepted selector and there is no path     *)
(* token the parse fails with the missing-path error; a command line with  *)
(* a second path token always fails, with the multiple-paths error naming  *)
(* the first path and the second unless an unknown "-" token or a          *)
(* conflicting selector comes before the second path (the parse then fails *)
(* with that token's error); an Ok result carries the one path token of    *)
(* the command line.                                                       *)
(***************************************************************************)
C16_ExactlyOnePath ==
    Parsed =>
      LET tokens == TokensOf(args)
          j == FirstOffence(tokens)
      IN /\ (j = 0 /\ PathAt(tokens) = {}) => ParseFailedWith(ErrMissingPath)
         /\ SecondPathAt(tokens) # {} => pc = "done" /\ outcome = "usage"
         /\ (j # 0 /\ j \in SecondPathAt(tokens)) =>
               ParseFailedWith(<<"[ERR] - Multiple input paths were provided: '">>
                               \o tokens[Least(PathAt(tokens))] \o <<"' and '">> \o tokens[j]
                               \o <<"'.">>)
         /\ ParsedOk =>
               /\ Cardinality(PathAt(tokens)) = 1
               /\ cli_args.v.file_path = tokens[Least(PathAt(tokens))]

C16_Witness ==
    /\ args = <<Doxcer, <<"a", ".", "p", "y">>, <<"-", "a", "w", "s">>, <<"b">> >>
    /\ ParseFailedWith(ErrMultiplePaths(<<"a", ".", "p", "y">>, <<"b">>))

(***************************************************************************)
(* Reading a notebook line: its content after the leading whitespace, and  *)
(* the three markers.                                                      *)
(***************************************************************************)
LineContent(line) ==
    LET lead == {i \in 1..Len(line) : \A j \in 1..i : line[j] \in {" ", "\t", "\r", "\n"}}
    IN SubSeq(line, Cardinality(lead) + 1, Len(line))

Markers ==
    { <<"#", " ", "M", "E", "T", "A", "D", "A", "T", "A">>,
      <<"#", " ", "M", "E", "T", "A">>,
      <<"#", " ", "C", "E", "L", "L">> }

BeginsWith(text, m) == Len(text) >= Len(m) /\ \A i \in 1..Len(m) : text[i] = m[i]

WordChars ==
    { "A", "B", "C", "D", "E", "F", "G", "H", "I", "J", "K", "L", "M", "N",
      "O", "P", "Q", "R", "S", "T", "U", "V", "W", "X", "Y", "Z", "a", "b",
      "c", "d", "e", "f", "g", "h", "i", "j", "k", "l", "m", "n", "o", "p",
      "q", "r", "s", "t", "u", "v", "w", "x", "y", "z", "0", "1", "2", "3",
      "4", "5", "6", "7", "8", "9", "_" }

\* the text begins with a marker, whatever follows
BeginsWithMarker(line) == \E m \in Markers : BeginsWith(LineContent(line), m)

NoMarkerPrefix(line) == ~BeginsWithMarker(line)

\* the text begins with a marker that ends the line or is followed by a
\* character that is no word character
BeginsWithMarkerWord(line) ==
    \E m \in Markers :
        /\ BeginsWith(LineContent(line), m)
        /\ \/ Len(LineContent(line)) = Len(m)
           \/ LineContent(line)[Len(m) + 1] \notin WordChars

NoMarkerWord(line) == ~BeginsWithMarkerWord(line)

(***************************************************************************)
(* C17: strip_notebook_metadata returns the lines of its input, unchanged  *)
(* and in their order, joined by "\n", whose content after the leading     *)
(* whitespace does not begin with "# METADATA", "# META" or "# CELL"; the  *)
(* test is case-sensitive ("# meta" is kept) and wants the space after "#" *)
(* ("#METADATA" is kept).                                                  *)
(***************************************************************************)
C17_KeepsExactlyNonMarkerLines ==
    pc = "stripped" =>
      /\ cleaned_notebook = Join(SelectSeq(Lines(notebook_content), NoMarkerPrefix), <<"\n">>)
      /\ \A line \in Range(Lines(notebook_content)) :
            line \in { <<"#", "M", "E", "T", "A", "D", "A", "T", "A">>, <<"#", " ", "m", "e", "t", "a">> }
            => line \in Range(Lines(cleaned_notebook))

C17_Witness ==
    /\ pc = "stripped"
    /\ notebook_content = <<"#", "M", "E", "T", "A", "D", "A", "T", "A", "\n",
                             " ", "\t", "#", " ", "C", "E", "L", "L", " ", "2", "\n",
                             "#", " ", "m", "e", "t", "a">>
    /\ cleaned_notebook = <<"#", "M", "E", "T", "A", "D", "A", "T", "A", "\n",
                             "#", " ", "m", "e", "t", "a">>

(***************************************************************************)
(* C18: a line is metadata only when its marker ends the line or is        *)
(* followed by a character that is no word character: a line that goes on  *)
(* after the marker with word characters ("# METAL parts", "# CELLS = 3")  *)
(* is no metadata line and strip_notebook_metadata keeps it.               *)
(***************************************************************************)
C18_MarkerNeedsWordBoundary ==
    pc = "stripped" =>
      cleaned_notebook = Join(SelectSeq(Lines(notebook_content), NoMarkerWord), <<"\n">>)

(***************************************************************************)
(* C19: strip_notebook_metadata is idempotent: applied to its own result   *)
(* it returns that result, for every text, also one that ends with a line  *)
(* break or with empty lines.                                              *)
(***************************************************************************)
C19_StripIsIdempotent ==
    pc = "stripped_twice" => cleaned_notebook = strip_notebook_metadata(notebook_content)

(***************************************************************************)
(* C20: collapse_blank_lines is idempotent: applied to its own result it   *)
(* returns that result, for every text, also one that ends with a line     *)
(* break or with a run of blank lines.                                     *)
(***************************************************************************)
C20_CollapseIsIdempotent ==
    pc = "collapsed_twice" => cleaned_notebook = collapse_blank_lines(notebook_content)

(***************************************************************************)
(* Reading a text line by line: the blank lines, and the lines chosen by   *)
(* their position.                                                         *)
(***************************************************************************)
IsBlankLine(line) == \A i \in 1..Len(line) : line[i] \in {" ", "\t", "\r", "\n"}

\* the lines at the positions of `keep`, in their order
RECURSIVE LinesAt(_, _, _)
LinesAt(lines, keep, i) ==
    IF i > Len(lines) THEN <<>>
    ELSE (IF i \in keep THEN <<lines[i]>> ELSE <<>>) \o LinesAt(lines, keep, i + 1)

\* the positions that are not a later line of a run of blank lines
RunHeads(lines) ==
    {i \in 1..Len(lines) : ~IsBlankLine(lines[i]) \/ i = 1 \/ ~IsBlankLine(lines[i - 1])}

(***************************************************************************)
(* C21: collapse_blank_lines returns the lines of its input, joined by     *)
(* "\n", with every run of two or more blank (empty or whitespace-only)    *)
(* lines replaced by the first line of the run as it is; non-blank lines   *)
(* and single blank lines are unaltered and in order; the output has no    *)
(* more lines than the input and no two adjacent blank lines.              *)
(***************************************************************************)
C21_CollapseKeepsRunHeads ==
    pc = "collapsed" =>
      LET lines == Lines(notebook_content)
          out == Lines(cleaned_notebook)
      IN /\ cleaned_notebook = Join(LinesAt(lines, RunHeads(lines), 1), <<"\n">>)
         /\ Len(out) <= Len(lines)
         /\ \A i \in 1..(Len(out) - 1) : ~(IsBlankLine(out[i]) /\ IsBlankLine(out[i + 1]))
         /\ SelectSeq(out, LAMBDA l : ~IsBlankLine(l))
              = SelectSeq(lines, LAMBDA l : ~IsBlankLine(l))

C21_Witness ==
    /\ pc = "collapsed"
    /\ notebook_content = <<" ", "\n", "\n", "x">>
    /\ cleaned_notebook = <<" ", "\n", "x">>

(***************************************************************************)
(* Reading a rendered table back: its lines, and the cells of a line.  A   *)
(* "|" is a delimiter unless the character before it is a backslash.       *)
(***************************************************************************)
RECURSIVE SplitAtDelimiters(_, _, _)
SplitAtDelimiters(line, i, piece) ==
    IF i > Len(line) THEN <<piece>>
    ELSE IF line[i] = "|" /\ (i = 1 \/ line[i - 1] # "\\")
    THEN <<piece>> \o SplitAtDelimiters(line, i + 1, <<>>)
    ELSE SplitAtDelimiters(line, i + 1, Append(piece, line[i]))

\* the texts between the delimiters of a line that begins and ends with one
CellsOfLine(line) ==
    LET pieces == SplitAtDelimiters(line, 1, <<>>)
    IN IF Len(pieces) >= 2 /\ pieces[1] = <<>> /\ pieces[Len(pieces)] = <<>>
       THEN SubSeq(pieces, 2, Len(pieces) - 1)
       ELSE << <<"not delimited">> >>

\* the lines of a text whose every line ends with "\n"
TableLines(text) ==
    LET pieces == Split(text, "\n")
    IN SubSeq(pieces, 1, Len(pieces) - 1)

\* what a cell holding `value` reads as: the value between two spaces, each
\* line break of the value a space
ShownAs(value) ==
    <<" ">> \o [i \in 1..Len(value) |-> IF value[i] \in {"\n", "\r"} THEN " " ELSE value[i]]
            \o <<" ">>

\* a cell as read, its escaped pipes read as pipes
ReadCell(cell) == ReplaceText(cell, <<"\\", "|">>, <<"|">>)

Formatted == pc = "formatted"
TableCols == fetch_result.v.cols
TableData == fetch_result.v.rows
TableText == fabric_definitions.v

(***************************************************************************)
(* C22: for an empty column list format_definitions_as_markdown_table      *)
(* returns the 'No definition rows returned' sentinel whatever the rows;   *)
(* otherwise a header line, a separator line of as many cells, and one     *)
(* line per row; each data line has exactly len(columns) cells, cell i     *)
(* holding the row's value i, empty when the row is shorter, and the       *)
(* values of a longer row beyond the columns are dropped.                  *)
(***************************************************************************)
C22_TableShape ==
    Formatted =>
      IF TableCols = <<>>
      THEN TableText = <<"[INF] - No definition rows returned.">>
      ELSE LET ls == TableLines(TableText)
               n == Len(TableCols)
           IN /\ TableText[Len(TableText)] = "\n"
              /\ Len(ls) = 2 + Len(TableData)
              /\ Len(CellsOfLine(ls[1])) = n
              /\ CellsOfLine(ls[2]) = [i \in 1..n |-> <<" ", "-", "-", "-", " ">>]
              /\ \A r \in 1..Len(TableData) :
                    LET row == TableData[r]
                        cells == CellsOfLine(ls[2 + r])
                    IN /\ Len(cells) = n
                       /\ \A i \in 1..n :
                             ReadCell(cells[i]) = ShownAs(IF i <= Len(row) THEN row[i] ELSE <<>>)

\* two columns; the one row has a single value
C22_Witness ==
    /\ Formatted
    /\ Len(TableCols) = 2
    /\ Len(TableData) = 1
    /\ Len(TableData[1]) = 1
    /\ Len(TableLines(TableText)) = 3

\* the positions of the pipes of a line that no backslash precedes
Delimiters(line) == {i \in 1..Len(line) : line[i] = "|" /\ (i = 1 \/ line[i - 1] # "\\")}

\* how often the character c occurs in s
Occurrences(s, c) == Cardinality({i \in 1..Len(s) : s[i] = c})

\* value i of a row, the empty text when the row has none
ValueAt(row, i) == IF i <= Len(row) THEN row[i] ELSE <<>>

\* the pipes and line breaks that the cells of a line are written from
PipesOf(values, n) == LET k[i \in 0..n] == IF i = 0 THEN 0 ELSE k[i - 1] + Occurrences(ValueAt(values, i), "|")
                      IN k[n]

GenericFileName ==
    <<"n", "o", "t", "e", "b", "o", "o", "k", "-", "c", "o", "n", "t", "e", "n", "t", ".", "p", "y">>
GenericName ==
    <<"n", "o", "t", "e", "b", "o", "o", "k", "-", "c", "o", "n", "t", "e", "n", "t">>
FolderSuffix == <<".", "N", "o", "t", "e", "b", "o", "o", "k">>

InputPath == cli_args.v.file_path
InputComponents == PathComponents(InputPath)
InputFileName == InputComponents[Len(InputComponents)]

\* the name of the directory that holds the file, the empty text when the
\* path names none
ParentDirectoryName ==
    IF Len(InputComponents) >= 2 /\ InputComponents[Len(InputComponents) - 1] # <<".", ".">>
    THEN InputComponents[Len(InputComponents) - 1]
    ELSE <<>>

\* determine_output_names has returned
NamesReturned == pc = "read"

(***************************************************************************)
(* C24: for a path whose file name is not 'notebook-content.py',           *)
(* determine_output_names returns the file name as the name with           *)
(* extension, and as stem the file name without its last extension (the    *)
(* whole name when it has no "." or only a leading one), whatever the      *)
(* directories of the path.                                                *)
(***************************************************************************)
C24_PlainNameFromFileName ==
    (NamesReturned /\ InputFileName # GenericFileName) =>
      LET dots == {i \in 2..Len(InputFileName) : InputFileName[i] = "."}
      IN /\ output_file_name_ext = InputFileName
         /\ IF dots = {}
            THEN output_file_name = InputFileName
            ELSE \E d \in dots :
                   /\ \A e \in dots : e <= d
                   /\ output_file_name = SubSeq(InputFileName, 1, d - 1)

\* the file name has two dots and two directories lie before it
C24_Witness ==
    /\ NamesReturned
    /\ InputPath = <<"d", "/", "d", "/", "A">> \o FolderSuffix \o FolderSuffix
    /\ output_file_name = <<"A">> \o FolderSuffix
    /\ output_file_name_ext = <<"A">> \o FolderSuffix \o FolderSuffix

\* the special case has been taken
GenericNamesReturned == NamesReturned /\ InputFileName = GenericFileName

\* the name the stem is made from
StemSource == IF ParentDirectoryName = <<>> THEN GenericName ELSE ParentDirectoryName

(***************************************************************************)
(* C25 as stated: for the file name 'notebook-content.py' the stem is the  *)
(* parent directory's name with the '.Notebook' suffix stripped if present *)
(* (unchanged otherwise), or 'notebook-content' without a parent directory *)
(* name, and the name with extension is the stem and '.py'.  Fails for a   *)
(* parent directory named 'A.Notebook.Notebook': the stem is 'A', not      *)
(* 'A.Notebook'.                                                           *)
(***************************************************************************)
C25_SuffixStrippedOnce ==
    GenericNamesReturned =>
      /\ output_file_name =
            (IF EndsWith(StemSource, FolderSuffix)
             THEN SubSeq(StemSource, 1, Len(StemSource) - Len(FolderSuffix))
             ELSE StemSource)
      /\ output_file_name_ext = output_file_name \o <<".", "p", "y">>

(***************************************************************************)
(* C27: for every path with a file name determine_output_names returns a   *)
(* non-empty stem, so the LIKE pattern stem + '%' is never '%' alone and   *)
(* the output file is never named '.md'.  Fails for the parent directory   *)
(* '.Notebook' of 'notebook-content.py': the stem is empty.                *)
(***************************************************************************)
C27_StemNeverEmpty ==
    NamesReturned =>
      /\ output_file_name # <<>>
      /\ output_file_name \o <<"%">> # <<"%">>
      /\ output_path(output_file_name) # output_path(<<>>)

(***************************************************************************)
(* C30: in the 'notebook-content.py' case the stem never ends with         *)
(* '.Notebook'; the parent directory 'A.Notebook.Notebook' gives the stem  *)
(* 'A' and the file name 'A.py'.                                           *)
(***************************************************************************)
C30_NoTrailingSuffix ==
    GenericNamesReturned =>
      /\ ~EndsWith(output_file_name, FolderSuffix)
      /\ ParentDirectoryName = <<"A">> \o FolderSuffix \o FolderSuffix =>
            /\ output_file_name = <<"A">>
            /\ output_file_name_ext = <<"A", ".", "p", "y">>

C30_Witness ==
    /\ GenericNamesReturned
    /\ InputPath = <<"A">> \o FolderSuffix \o FolderSuffix \o <<"/">> \o GenericFileName
    /\ output_file_name = <<"A">>

(***************************************************************************)
(* Reading the registry: the entries of a profile, the profiles that list  *)
(* a token, and the tokens a lookup can be asked for.                      *)
(***************************************************************************)
EntriesOf(profile) ==
    {k \in DOMAIN PROMPT_PROFILE_SPECS : PROMPT_PROFILE_SPECS[k].profile = profile}

ProfilesListing(token) ==
    {PROMPT_PROFILE_SPECS[k].profile :
        k \in {i \in DOMAIN PROMPT_PROFILE_SPECS :
                  \E f \in DOMAIN PROMPT_PROFILE_SPECS[i].selector_flags :
                     PROMPT_PROFILE_SPECS[i].selector_flags[f] = token}}

\* the tokens of the command line, every selector flag of the registry, and
\* "-" before every name of the registry
LookupTokens ==
    Range(TokensOf(args))
    \cup UNION {Range(PROMPT_PROFILE_SPECS[k].selector_flags) : k \in DOMAIN PROMPT_PROFILE_SPECS}
    \cup {<<"-">> \o PROMPT_PROFILE_SPECS[k].name : k \in DOMAIN PROMPT_PROFILE_SPECS}

(***************************************************************************)
(* C26: the registry has exactly one entry per PromptProfile value, no     *)
(* selector token is listed by two profiles, and Default alone has no      *)
(* selector; so the lookup by profile finds the entry of every profile,    *)
(* the lookup by token returns at most one profile and never Default, and  *)
(* a parsed command line carries a profile of the registry.                *)
(***************************************************************************)
C26_RegistryIsWellFormed ==
    /\ \A k \in DOMAIN PROMPT_PROFILE_SPECS : PROMPT_PROFILE_SPECS[k].profile \in PromptProfile
    /\ \A p \in PromptProfile : Cardinality(EntriesOf(p)) = 1
    /\ \A t \in LookupTokens : Cardinality(ProfilesListing(t)) <= 1
    /\ \A k \in DOMAIN PROMPT_PROFILE_SPECS :
          (PROMPT_PROFILE_SPECS[k].selector_flags = <<>>) <=> (PROMPT_PROFILE_SPECS[k].profile = "Default")
    /\ \A p \in PromptProfile : prompt_profile_spec(p).profile = p
    /\ \A t \in LookupTokens :
          LET found == parse_profile_selector(t)
          IN /\ found.some <=> ProfilesListing(t) # {}
             /\ found.some => found.v # "Default" /\ ProfilesListing(t) = {found.v}
    /\ ParsedOk =>
          /\ cli_args.v.profile \in PromptProfile
          /\ cli_args.v.profile # "Default" <=> SelectorAt(TokensOf(args)) # {}

\* the lookup by token has found Aws, the lookup by profile its entry
C26_Witness ==
    /\ ParsedOk
    /\ args = <<Doxcer, <<"a", ".", "p", "y">>, <<"-", "a", "w", "s">> >>
    /\ cli_args.v.profile = "Aws"
    /\ prompt_profile_spec(cli_args.v.profile).template_stem = <<"a", "w", "s">>

(***************************************************************************)
(* Reading an error message: its kind is its fixed beginning.              *)
(***************************************************************************)
KindUnknownSelector == "[ERR] - Unknown selector '"
KindConflicting == "[ERR] - Conflicting selectors: both '"
KindMultiplePaths == "[ERR] - Multiple input paths were provided: '"
KindMissingPath == "[ERR] - Missing required notebook path argument."

ParseFailedWithKind(kind) ==
    /\ pc = "done"
    /\ outcome = "usage"
    /\ cli_args = None
    /\ log # <<>>
    /\ log[1].stream = "stderr"
    /\ log[1].text[1] = kind

\* the kind of error the token at position j is in
KindOfOffence(tokens, j) ==
    IF j \in UnknownAt(tokens) THEN KindUnknownSelector
    ELSE IF j \in ConflictAt(tokens) THEN KindConflicting
    ELSE KindMultiplePaths

(***************************************************************************)
(* C29: parse_cli_args reads the tokens from left to right and returns the *)
(* error of the first token in error, whatever comes after it; the         *)
(* missing-path error is returned only when every token was accepted.      *)
(* 'a.py b -x' gives the multiple-paths error, '-x -fabric -aws' the       *)
(* unknown-selector error.                                                 *)
(***************************************************************************)
C29_FirstOffenceDecides ==
    Parsed =>
      LET tokens == TokensOf(args)
          j == FirstOffence(tokens)
      IN /\ j # 0 => ParseFailedWithKind(KindOfOffence(tokens, j))
         /\ ParseFailedWithKind(KindMissingPath) => j = 0 /\ PathAt(tokens) = {}
         /\ ParseFailedWithKind(KindUnknownSelector) =>
               log[1].text = <<KindUnknownSelector>> \o tokens[j]
                               \o <<"'. Supported selectors: ">> \o CanonicalSelectorList \o <<".">>
         /\ ParseFailedWithKind(KindMultiplePaths) =>
               log[1].text = <<KindMultiplePaths>> \o tokens[Least(PathAt(tokens))]
                               \o <<"' and '">> \o tokens[j] \o <<"'.">>
         /\ tokens = << <<"a", ".", "p", "y">>, <<"b">>, <<"-", "x">> >>
               => ParseFailedWithKind(KindMultiplePaths)
         /\ tokens = << <<"-", "x">>, <<"-", "f", "a", "b", "r", "i", "c">>, <<"-", "a", "w", "s">> >>
               => ParseFailedWithKind(KindUnknownSelector)

\* two paths, then an unknown selector: the second path is reported
C29_Witness ==
    /\ args = <<Doxcer, <<"a", ".", "p", "y">>, <<"b">>, <<"-", "x">> >>
    /\ ParseFailedWithKind(KindMultiplePaths)
    /\ log[1].text = <<KindMultiplePaths, "a", ".", "p", "y", "' and '", "b", "'.">>

(***************************************************************************)
(* Reading the definitions block of an assembled prompt.                   *)
(***************************************************************************)
DefinitionsBlock == DefinitionsSection(prompt.v)

BlockPlaceholders ==
    { <<"[INF] - Definition database disabled.">>,
      <<"[INF] - No definitions loaded (query returned no rows).">>,
      <<"[INF] - No definitions loaded (query failed).">>,
      <<"[INF] - Azure SQL definitions not implemented yet.">> }

\* a table of at least one column and one data row
IsTableWithData(text) ==
    /\ text # <<>>
    /\ text[Len(text)] = "\n"
    /\ LET ls == TableLines(text)
       IN /\ Len(ls) >= 3
          /\ \A l \in 1..Len(ls) :
                /\ Cardinality(Delimiters(ls[l])) >= 2
                /\ Len(CellsOfLine(ls[l])) = Len(CellsOfLine(ls[1]))
          /\ \A c \in 1..Len(CellsOfLine(ls[2])) :
                CellsOfLine(ls[2])[c] = <<" ", "-", "-", "-", " ">>

(***************************************************************************)
(* C28: the definitions block of every assembled prompt is one of the four *)
(* placeholders or a rendered table of at least one column and one data    *)
(* row; the renderer's 'No definition rows returned' sentinel never        *)
(* reaches the prompt.                                                     *)
(***************************************************************************)
C28_BlockIsPlaceholderOrTable ==
    prompt.some =>
      /\ DefinitionsBlock \in BlockPlaceholders \/ IsTableWithData(DefinitionsBlock)
      /\ DefinitionsBlock # <<"[INF] - No definition rows returned.">>
      /\ \A i \in 1..Len(prompt.v) : prompt.v[i] # "[INF] - No definition rows returned."

\* a prompt whose definitions block is a table of two columns and one row
C28_Witness ==
    /\ prompt.some
    /\ IsTableWithData(DefinitionsBlock)
    /\ Len(TableLines(DefinitionsBlock)) = 3
    /\ Len(CellsOfLine(TableLines(DefinitionsBlock)[3])) = 2
    /\ fetch_result.some
    /\ fetch_result.v.ok

====
